---- MODULE Spec2Model ----
(***************************************************************************)
(* Verification model of the termflix catalog aggregation and              *)
(* deduplication engine.  Strings are modelled as sequences of             *)
(* one-character strings so that case folding, substring search and the    *)
(* regular expressions of the source are computed as the source computes   *)
(* them.                                                                   *)
(***************************************************************************)
EXTENDS Integers, Sequences, FiniteSets, TLC

\* ------------------------------------------------------------------------
\* Bounds of the model
\* ------------------------------------------------------------------------
\* number of add_torrent / add_tpb_results calls in one aggregator run
MaxAdds == 2

\* ------------------------------------------------------------------------
\* String helpers (python str methods and the regex fragments in use)
\* ------------------------------------------------------------------------
UpperChars == <<"A","B","C","D","E","F","G","H","I","J","K","L","M",
                "N","O","P","Q","R","S","T","U","V","W","X","Y","Z">>

LowerChars == <<"a","b","c","d","e","f","g","h","i","j","k","l","m",
                "n","o","p","q","r","s","t","u","v","w","x","y","z">>

DigitChars == <<"0","1","2","3","4","5","6","7","8","9">>

Range(s) == {s[i] : i \in 1..Len(s)}

\* F of the value of x: x is computed once, however often F refers to it
With(x, F(_)) == CHOOSE r \in {F(v) : v \in {x}} : TRUE

\* str.lower() on one character
LowerChar(c) ==
  IF \E i \in 1..26 : UpperChars[i] = c
  THEN LowerChars[CHOOSE i \in 1..26 : UpperChars[i] = c]
  ELSE c

\* str.lower()
StrLower(s) == [i \in 1..Len(s) |-> LowerChar(s[i])]

\* python: pat in s
Contains(s, pat) ==
  \E i \in 1..(Len(s) - Len(pat) + 1) : SubSeq(s, i, i + Len(pat) - 1) = pat

IsSpace(c) == c = " "

\* regex \w
IsWord(c) == c \in Range(UpperChars) \cup Range(LowerChars) \cup Range(DigitChars) \cup {"_"}

\* str.strip() of blanks
RECURSIVE LStrip(_)
LStrip(s) == IF s # <<>> /\ IsSpace(Head(s)) THEN LStrip(Tail(s)) ELSE s

RECURSIVE RStrip(_)
RStrip(s) ==
  IF s # <<>> /\ IsSpace(s[Len(s)]) THEN RStrip(SubSeq(s, 1, Len(s) - 1)) ELSE s

Strip(s) == RStrip(LStrip(s))

\* re.sub(r'\s+', ' ', s)
RECURSIVE CollapseSpaces(_)
CollapseSpaces(s) ==
  IF s = <<>> THEN <<>>
  ELSE IF IsSpace(Head(s))
       THEN <<" ">> \o CollapseSpaces(LStrip(s))
       ELSE <<Head(s)>> \o CollapseSpaces(Tail(s))

\* s * n
Repeat(c, n) == [i \in 1..n |-> c]

ZeroHash == Repeat("0", 40)

MagnetPrefix == <<"m","a","g","n","e","t",":","?","x","t","=","u","r","n",":","b","t","i","h",":">>

\* python f-string / str concatenation of a magnet link
Magnet(h) == MagnetPrefix \o h

\* ------------------------------------------------------------------------
\* State
\* ------------------------------------------------------------------------
VARIABLES
  prog,          \* the program this process runs
  movies,        \* UnifiedAggregator.movies: dict in insertion order, as a sequence of entries
  seen_hashes,   \* UnifiedAggregator.seen_hashes
  agg_call,      \* the last call made on the aggregator and how it ended
  agg_ret,       \* the value returned by the last finalize
  n_adds,        \* add_torrent calls made so far
  add_order,     \* history: the lower-cased hashes add_torrent accepted, in order of acceptance
  gr_variant,    \* which group_results.py runs: "lib" (lib/termflix/scripts) or "bin" (bin/termflix_scripts)
  gr_query,      \* sys.argv[1] of group_results.py
  gr_results,    \* the lines read from stdin so far
  gr_seen,       \* main: seen_hashes
  gr_groups,     \* main: title_groups, a dict in insertion order, as a sequence of entries
  gr_pc,         \* main: "first_pass", "done", or "crashed" after an uncaught exception
  gr_entries,    \* main: the (items, preferred_year) of each print_combined call, in call order
  gr_out,        \* the lines written to stdout
  cat_variant,   \* which catalog runs: "bin" (bin/scripts, fetch_multi_source_catalog) or
                 \* "python" (scripts/python, fetch_enriched_catalog)
  cat_parallel,  \* fetch_multi_source_catalog: the parallel argument
  cat_cache,     \* the files of CACHE_DIR still fresh, by key prefix
  cat_pc,        \* where the catalog call is: "start", "fallback", "aggregate", "phase1",
                 \* "phase2", "returned", or "raised" after an uncaught exception
  cat_movies,    \* the records the running batch of tasks was submitted for
  cat_pending,   \* the futures of the batch not completed yet
  cat_all_movies, \* fetch_enriched_catalog: all_movies, a dict in insertion order
  cat_results,   \* fetch_multi_source_catalog: results
  cat_ret,       \* what the catalog call returned or raised
  cat_log,       \* history, in completion order: every aggregate_movie task run, with the
                 \* movie, how its TPB search ended and the line it produced; every
                 \* task of fetch_enriched_catalog, with what it returned
  cat_net,       \* history: how the fetches of the call ended so far: "answered" (some
                 \* request got a response), "failed" (none did), "cache" (read from CACHE_DIR)
  tpb_working_domain, \* TPBClient.working_domain
  tpb_cache,     \* the files of TPBClient.cache_dir younger than CACHE_TTL, by key
  tpb_call,      \* the last call made on the client and what it returned or raised
  tpb_requests,  \* history: the requests of the last call, in order
  n_calls,       \* calls made on the client so far
  dr_pc,         \* deep_research_movie: "start", "queries", or "returned"
  dr_k,          \* deep_research_movie: the query to run next, 1 for the base query
  dr_initial_count, \* deep_research_movie: initial_count
  dr_ret,        \* what deep_research_movie returned
  dr_raised,     \* history: the try block of the last query run left through its except
  fn_call,       \* the last call of a module-level function made on its own: the function,
                 \* its arguments and what it returned
  ch_impl,       \* which cache the tasks share: "ResponseCache" (search_yts.py), "TPBClient"
                 \* (tpb_client.py), "get_cached" (fetch_multi_source_catalog.py) or
                 \* "get_cached_results" (search_eztv.py)
  ch_now,        \* time.time()
  ch_ticks,      \* times the clock moved
  ch_file,       \* the cache file of the key: whether it exists, its st_mtime and its text
  ch_w,          \* the fetching task: where it is, the data it fetched, the text it is
                 \* writing, whether a write failed, and what the fetch returned
  ch_fetches,    \* fetches started so far
  ch_read        \* what the last read by the reading task returned, with the age it
                 \* computed and whether the file held a whole entry

agg_vars == <<movies, seen_hashes, agg_call, agg_ret, n_adds, add_order>>

gr_vars == <<gr_variant, gr_query, gr_results, gr_seen, gr_groups, gr_pc, gr_entries, gr_out>>

cat_vars == <<cat_variant, cat_parallel, cat_cache, cat_pc, cat_movies, cat_pending,
              cat_all_movies, cat_results, cat_ret, cat_log, cat_net>>

tpb_vars == <<tpb_working_domain, tpb_cache, tpb_call, tpb_requests, n_calls>>

dr_vars == <<dr_pc, dr_k, dr_initial_count, dr_ret, dr_raised>>

fn_vars == <<fn_call>>

ch_vars == <<ch_impl, ch_now, ch_ticks, ch_file, ch_w, ch_fetches, ch_read>>

vars == <<prog, agg_vars, gr_vars, cat_vars, tpb_vars, dr_vars, fn_vars, ch_vars>>

\* what a call on the aggregator leaves alone
agg_frame == UNCHANGED <<prog, gr_vars, cat_vars, tpb_vars, dr_vars, fn_vars, ch_vars>>

\* what a step of group_results leaves alone
gr_frame == UNCHANGED <<prog, agg_vars, cat_vars, tpb_vars, dr_vars, fn_vars, ch_vars>>

\* what a step of a catalog call leaves alone
cat_frame == UNCHANGED <<prog, agg_vars, gr_vars, tpb_vars, dr_vars, fn_vars, ch_vars>>

\* what a call on the TPB client leaves alone
tpb_frame == UNCHANGED <<prog, agg_vars, gr_vars, cat_vars, dr_vars, fn_vars, ch_vars>>

\* what a step of deep_research_movie leaves alone: it works on the client and the aggregator
dr_frame == UNCHANGED <<prog, agg_call, agg_ret, n_adds, add_order, gr_vars, cat_vars,
                        tpb_cache, n_calls, fn_vars, ch_vars>>

\* no function called on its own yet
NoFnCall == [fn |-> "none", args |-> <<>>, ret |-> <<>>]

\* what a call of a module-level function leaves alone
fn_frame == UNCHANGED <<prog, agg_vars, gr_vars, cat_vars, tpb_vars, dr_vars, ch_vars>>

\* what a step of a task on the cache leaves alone; a fetch of TPBClient sets working_domain
ch_frame == UNCHANGED <<prog, agg_vars, gr_vars, cat_vars, tpb_cache, tpb_call, tpb_requests,
                        n_calls, dr_vars, fn_vars, ch_impl>>

\* ------------------------------------------------------------------------
\* unified_aggregator.py: pure functions
\* ------------------------------------------------------------------------
\* re.sub(r'^the\s+', '', t)
StripThePrefix(t) ==
  IF Len(t) >= 4 /\ SubSeq(t, 1, 3) = <<"t","h","e">> /\ IsSpace(t[4])
  THEN LStrip(SubSeq(t, 4, Len(t)))
  ELSE t

\* re.sub(r',\s*the$', '', t)
StripTheSuffix(t) ==
  IF Len(t) >= 4 /\ SubSeq(t, Len(t) - 2, Len(t)) = <<"t","h","e">>
  THEN LET r == RStrip(SubSeq(t, 1, Len(t) - 3))
       IN IF r # <<>> /\ r[Len(r)] = "," THEN SubSeq(r, 1, Len(r) - 1) ELSE t
  ELSE t

\* a normalisation that leaves a trailing ", the" in the title
UA_normalize_title_keeps_suffix(title) ==
  IF title = <<>> THEN <<>>
  ELSE LET t0 == Strip(StrLower(title))
           t1 == StripThePrefix(t0)
           t3 == SelectSeq(t1, LAMBDA c : IsWord(c) \/ IsSpace(c))
       IN Strip(CollapseSpaces(t3))

UA_normalize_title(title) ==
  IF title = <<>> THEN <<>>
  ELSE LET t0 == Strip(StrLower(title))
           t1 == StripThePrefix(t0)
           t2 == StripTheSuffix(t1)
           t3 == SelectSeq(t2, LAMBDA c : IsWord(c) \/ IsSpace(c))
       IN Strip(CollapseSpaces(t3))

UA_get_movie_key(title, year) ==
  IF year # <<>> THEN UA_normalize_title(title) \o <<"_">> \o year
  ELSE UA_normalize_title(title)

\* the (pattern, label) table of extract_quality, in source order
UA_qualities ==
  << <<<<"2","1","6","0","p">>, "4K">>, <<<<"4","k">>, "4K">>, <<<<"u","h","d">>, "4K">>,
     <<<<"1","0","8","0","p">>, "1080p">>, <<<<"1","0","8","0","i">>, "1080p">>,
     <<<<"7","2","0","p">>, "720p">>,
     <<<<"4","8","0","p">>, "480p">>,
     <<<<"c","a","m">>, "CAM">>, <<<<"t","s">>, "TS">>, <<<<"t","c">>, "TC">> >>

UA_extract_quality(name) ==
  LET low == StrLower(name)
      hits == {i \in 1..Len(UA_qualities) : Contains(low, UA_qualities[i][1])}
  IN IF hits = {} THEN "Unknown"
     ELSE UA_qualities[CHOOSE i \in hits : \A j \in hits : i <= j][2]

\* quality_order.get(q, 99) of finalize
UA_quality_order(q) ==
  CASE q = "4K" -> 0 [] q = "1080p" -> 1 [] q = "720p" -> 2 [] q = "480p" -> 3
    [] q = "CAM" -> 4 [] q = "TS" -> 5 [] q = "TC" -> 6 [] q = "Unknown" -> 7
    [] OTHER -> 99

\* a sort on the seeders alone
UA_torrent_key_less_seeders_only(a, b) == a.seeders > b.seeders

\* the sort key of finalize: (quality_order.get(t['quality'], 99), -t['seeders'])
UA_torrent_key_less(a, b) ==
  \/ UA_quality_order(a.quality) < UA_quality_order(b.quality)
  \/ /\ UA_quality_order(a.quality) = UA_quality_order(b.quality)
     /\ a.seeders > b.seeders

\* list.sort is stable: an element goes behind every element whose key is not greater
RECURSIVE UA_sort_torrents(_)
UA_sort_torrents(ts) ==
  IF ts = <<>> THEN <<>>
  ELSE LET init == UA_sort_torrents(SubSeq(ts, 1, Len(ts) - 1))
           x == ts[Len(ts)]
           k == Cardinality({i \in 1..Len(init) : ~UA_torrent_key_less(x, init[i])})
       IN SubSeq(init, 1, k) \o <<x>> \o SubSeq(init, k + 1, Len(init))

\* key of the movie sort: -m['torrents'][0]['seeders'] if m['torrents'] else 0
UA_movie_key(m) == IF m.torrents # <<>> THEN 0 - m.torrents[1].seeders ELSE 0

RECURSIVE UA_sort_movies(_)
UA_sort_movies(ms) ==
  IF ms = <<>> THEN <<>>
  ELSE LET init == UA_sort_movies(SubSeq(ms, 1, Len(ms) - 1))
           x == ms[Len(ms)]
           k == Cardinality({i \in 1..Len(init) : UA_movie_key(init[i]) <= UA_movie_key(x)})
       IN SubSeq(init, 1, k) \o <<x>> \o SubSeq(init, k + 1, Len(init))

\* python's order of the source names: "1337x" < "TPB" < "YTS"
SourceOrd(s) == CASE s = "1337x" -> 1 [] s = "TPB" -> 2 [] s = "YTS" -> 3 [] OTHER -> 4

\* sorted(list(a_set))
RECURSIVE SortedSources(_)
SortedSources(S) ==
  IF S = {} THEN <<>>
  ELSE LET m == CHOOSE x \in S : \A y \in S : SourceOrd(x) <= SourceOrd(y)
       IN <<m>> \o SortedSources(S \ {m})

\* position of a key in the movies dict, 0 when absent
MovieIndex(ms, key) ==
  IF \E i \in 1..Len(ms) : ms[i].key = key
  THEN CHOOSE i \in 1..Len(ms) : ms[i].key = key
  ELSE 0

\* ------------------------------------------------------------------------
\* Inputs of the aggregator runs
\* ------------------------------------------------------------------------
TheMatrix == <<"T","h","e"," ","M","a","t","r","i","x">>
MatrixThe == <<"M","a","t","r","i","x",","," ","T","h","e">>
Heat == <<"H","e","a","t">>
Y1999 == <<"1","9","9","9">>

Name2160 == <<"M",".","2","1","6","0","p">>
Name720 == <<"M",".","7","2","0","p">>

HashAB == <<"A","B","1">>
Hashab == <<"a","b","1">>
Hashcd == <<"c","d","2">>

\* who submits: source, movie identity and the enrichment fields it carries
Submitters ==
  { [source |-> "TPB", title |-> TheMatrix, year |-> Y1999,
     imdb_id |-> "", poster |-> "", rating |-> ""],
    [source |-> "YTS", title |-> MatrixThe, year |-> Y1999,
     imdb_id |-> "tt1", poster |-> "p1", rating |-> "8.7"],
    [source |-> "YTS", title |-> Heat, year |-> <<>>,
     imdb_id |-> "tt2", poster |-> "p2", rating |-> "N/A"] }

\* what is submitted: torrent name, seeders and info hash; the first two hashes differ in
\* letter case only
Releases ==
  { [name |-> Name2160, seeders |-> 5, hash |-> HashAB],
    [name |-> Name720, seeders |-> 5, hash |-> Hashab],
    [name |-> Name720, seeders |-> 9, hash |-> Hashcd] }

\* a second 720p release with 5 seeders, and one release for each of the other quality
\* tiers, each with a hash of its own
OtherTiers ==
  { [name |-> Name720, seeders |-> 5, hash |-> <<"e","0">>],
    [name |-> <<"M",".","1","0","8","0","p">>, seeders |-> 5, hash |-> <<"e","1">>],
    [name |-> <<"M",".","4","8","0","p">>, seeders |-> 5, hash |-> <<"e","2">>],
    [name |-> <<"M",".","C","A","M">>, seeders |-> 5, hash |-> <<"e","3">>],
    [name |-> <<"M",".","T","S">>, seeders |-> 5, hash |-> <<"e","4">>],
    [name |-> <<"M",".","T","C">>, seeders |-> 5, hash |-> <<"e","5">>],
    [name |-> <<"M">>, seeders |-> 5, hash |-> <<"e","6">>] }

\* hashes add_torrent rejects
InvalidHashes ==
  { [name |-> Name720, seeders |-> 5, hash |-> <<>>],
    [name |-> Name720, seeders |-> 5, hash |-> ZeroHash] }

MkAddArgs(w, r) ==
  [source |-> w.source, title |-> w.title, year |-> w.year, name |-> r.name,
   info_hash |-> r.hash, seeders |-> r.seeders,
   imdb_id |-> w.imdb_id, poster |-> w.poster, rating |-> w.rating]

AddArgs ==
  {MkAddArgs(w, r) : w \in Submitters, r \in Releases}
  \cup {MkAddArgs(w, r) : w \in {x \in Submitters : x.source = "TPB"},
                          r \in OtherTiers \cup InvalidHashes}

\* ------------------------------------------------------------------------
\* unified_aggregator.py: UnifiedAggregator
\* ------------------------------------------------------------------------
UA_new_movie(key, a) ==
  [key |-> key, title |-> a.title, year |-> a.year, imdb_id |-> a.imdb_id,
   poster |-> a.poster, rating |-> a.rating,
   sources |-> [kind |-> "set", elems |-> {}], torrents |-> <<>>]

\* "Update metadata if better version available"
UA_update_metadata(m, a) ==
  [m EXCEPT
     !.imdb_id = IF a.imdb_id # "" /\ m.imdb_id = "" THEN a.imdb_id ELSE @,
     !.poster = IF a.poster # "" /\ m.poster = "" THEN a.poster ELSE @,
     !.rating = IF a.rating # "" /\ m.rating \in {"", "N/A"} THEN a.rating ELSE @]

UA_torrent(a) ==
  [source |-> a.source, name |-> a.name, hash |-> a.info_hash,
   magnet |-> Magnet(a.info_hash), quality |-> UA_extract_quality(a.name),
   seeders |-> a.seeders]

\* a hash test that compares the hash as given
UA_is_seen_case_sensitive(h, seen) == h \in seen

\* the hash test of add_torrent against the seen set
UA_is_seen(h, seen) == StrLower(h) \in seen

\* the effect of add_torrent(a) on (movies, seen_hashes); raised = an exception left the call
UA_add_torrent(ms, seen, a) ==
  IF a.info_hash = <<>> \/ a.info_hash = ZeroHash
  THEN [movies |-> ms, seen |-> seen, raised |-> FALSE]
  ELSE IF UA_is_seen(a.info_hash, seen)
  THEN [movies |-> ms, seen |-> seen, raised |-> FALSE]
  ELSE LET seen1 == seen \cup {StrLower(a.info_hash)}
           key == UA_get_movie_key(a.title, a.year)
           ms1 == IF MovieIndex(ms, key) = 0 THEN Append(ms, UA_new_movie(key, a)) ELSE ms
           i == MovieIndex(ms1, key)
           m1 == UA_update_metadata(ms1[i], a)
       IN IF m1.sources.kind = "list"
          THEN \* movie['sources'].add on the list left by finalize: AttributeError
               [movies |-> [ms1 EXCEPT ![i] = m1], seen |-> seen1, raised |-> TRUE]
          ELSE [movies |-> [ms1 EXCEPT ![i] =
                              [m1 EXCEPT !.sources.elems = @ \cup {a.source},
                                         !.torrents = Append(@, UA_torrent(a))]],
                seen |-> seen1, raised |-> FALSE]

add_torrent(a) ==
  /\ prog = "unified_aggregator"
  /\ n_adds < MaxAdds
  /\ LET r == UA_add_torrent(movies, seen_hashes, a)
     IN /\ movies' = r.movies
        /\ seen_hashes' = r.seen
        /\ agg_call' = [op |-> "add_torrent", args |-> a, raised |-> r.raised]
        /\ add_order' = IF r.seen # seen_hashes
                        THEN Append(add_order, StrLower(a.info_hash)) ELSE add_order
  /\ n_adds' = n_adds + 1
  /\ UNCHANGED agg_ret
  /\ agg_frame

SourceElems(src) == IF src.kind = "set" THEN src.elems ELSE Range(src.elems)

\* the in-place part of finalize on one movie
UA_finalize_movie(m) ==
  [m EXCEPT !.sources = [kind |-> "list", elems |-> SortedSources(SourceElems(m.sources))],
            !.torrents = UA_sort_torrents(m.torrents)]

UA_finalize(ms) == [i \in 1..Len(ms) |-> UA_finalize_movie(ms[i])]

RECURSIVE SumLen(_)
SumLen(ms) == IF ms = <<>> THEN 0 ELSE Len(Head(ms).torrents) + SumLen(Tail(ms))

finalize ==
  /\ prog = "unified_aggregator"
  /\ movies' = UA_finalize(movies)
  /\ agg_ret' = UA_sort_movies(movies')
  /\ agg_call' = [op |-> "finalize", args |-> <<>>, raised |-> FALSE]
  /\ UNCHANGED <<seen_hashes, n_adds, add_order>>
  /\ agg_frame

to_json ==
  /\ prog = "unified_aggregator"
  /\ movies' = UA_finalize(movies)
  /\ agg_ret' = UA_sort_movies(movies')
  /\ agg_call' = [op |-> "to_json", args |-> <<>>, raised |-> FALSE]
  /\ UNCHANGED <<seen_hashes, n_adds, add_order>>
  /\ agg_frame

stats ==
  /\ prog = "unified_aggregator"
  /\ movies' = UA_finalize(movies)
  /\ agg_ret' = [movies |-> Len(movies'), torrents |-> SumLen(movies'),
                 unique_hashes |-> Cardinality(seen_hashes),
                 sources |-> UNION {Range(movies'[i].sources.elems) : i \in 1..Len(movies')}]
  /\ agg_call' = [op |-> "stats", args |-> <<>>, raised |-> FALSE]
  /\ UNCHANGED <<seen_hashes, n_adds, add_order>>
  /\ agg_frame

AggInit ==
  /\ movies = <<>>
  /\ seen_hashes = {}
  /\ agg_call = [op |-> "init", args |-> <<>>, raised |-> FALSE]
  /\ agg_ret = <<>>
  /\ n_adds = 0
  /\ add_order = <<>>

AggNext ==
  \/ \E a \in AddArgs : add_torrent(a)
  \/ finalize
  \/ to_json
  \/ stats

\* ------------------------------------------------------------------------
\* More string helpers: split/join, digits, regex fragments
\* ------------------------------------------------------------------------
IsDigit(c) == c \in Range(DigitChars)

IsLowerAlpha(c) == c \in Range(LowerChars)

IsAlnum(c) == c \in Range(UpperChars) \cup Range(LowerChars) \cup Range(DigitChars)

IsHex(c) == c \in Range(DigitChars) \cup {"a","b","c","d","e","f","A","B","C","D","E","F"}

DigitVal(c) == (CHOOSE i \in 1..10 : DigitChars[i] = c) - 1

\* int() of a digit string
RECURSIVE StrToNat(_)
StrToNat(s) ==
  IF s = <<>> THEN 0 ELSE 10 * StrToNat(SubSeq(s, 1, Len(s) - 1)) + DigitVal(s[Len(s)])

\* str() of a natural number
RECURSIVE NatToStr(_)
NatToStr(n) ==
  IF n < 10 THEN <<DigitChars[n + 1]>> ELSE NatToStr(n \div 10) \o <<DigitChars[(n % 10) + 1]>>

\* str.split(sep) for a one-character separator
RECURSIVE Split(_, _)
Split(s, sep) ==
  IF \E i \in 1..Len(s) : s[i] = sep
  THEN LET i == CHOOSE k \in 1..Len(s) : s[k] = sep /\ \A j \in 1..(k - 1) : s[j] # sep
       IN <<SubSeq(s, 1, i - 1)>> \o Split(SubSeq(s, i + 1, Len(s)), sep)
  ELSE <<s>>

\* sep.join(parts)
RECURSIVE Join(_, _)
Join(parts, sep) ==
  IF parts = <<>> THEN <<>>
  ELSE IF Len(parts) = 1 THEN parts[1]
  ELSE parts[1] \o <<sep>> \o Join(Tail(parts), sep)

\* list(dict.fromkeys(xs)): first occurrences, in order
RECURSIVE Dedupe(_)
Dedupe(xs) ==
  IF xs = <<>> THEN <<>>
  ELSE LET init == Dedupe(SubSeq(xs, 1, Len(xs) - 1))
       IN IF xs[Len(xs)] \in Range(init) THEN init ELSE Append(init, xs[Len(xs)])

\* the least element of a non-empty set of integers
Min(S) == CHOOSE x \in S : \A y \in S : x <= y

\* length of the run of characters satisfying the class, starting at position i
RECURSIVE DigitRun(_, _)
DigitRun(s, i) == IF i <= Len(s) /\ IsDigit(s[i]) THEN 1 + DigitRun(s, i + 1) ELSE 0

\* s matches 19[2-9]\d|20[0-2]\d at position i
IsYearAt(s, i) ==
  /\ i >= 1
  /\ i + 3 <= Len(s)
  /\ \/ s[i] = "1" /\ s[i + 1] = "9" /\ s[i + 2] \in {"2","3","4","5","6","7","8","9"}
     \/ s[i] = "2" /\ s[i + 1] = "0" /\ s[i + 2] \in {"0","1","2"}
  /\ IsDigit(s[i + 3])

\* \b before position i and after position j of s, around a token of word characters
WordAt(s, w, i) ==
  /\ i + Len(w) - 1 <= Len(s)
  /\ SubSeq(s, i, i + Len(w) - 1) = w
  /\ (i = 1 \/ ~IsWord(s[i - 1]))
  /\ (i + Len(w) - 1 = Len(s) \/ ~IsWord(s[i + Len(w)]))

\* re.sub(r'\b' + w + r'\b', rep, s), scanning from position i
RECURSIVE ReplaceWordFrom(_, _, _, _)
ReplaceWordFrom(s, w, rep, i) ==
  IF i > Len(s) THEN <<>>
  ELSE IF WordAt(s, w, i) THEN rep \o ReplaceWordFrom(s, w, rep, i + Len(w))
  ELSE <<s[i]>> \o ReplaceWordFrom(s, w, rep, i + 1)

ReplaceWord(s, w, rep) == IF Contains(s, w) THEN ReplaceWordFrom(s, w, rep, 1) ELSE s

\* re.sub of a literal pattern with an optional tail, case-insensitive, no boundaries
RECURSIVE RemoveLiteralFrom(_, _, _, _)
RemoveLiteralFrom(s, pat, tail, i) ==
  IF i > Len(s) THEN <<>>
  ELSE IF i + Len(pat) - 1 <= Len(s) /\ StrLower(SubSeq(s, i, i + Len(pat) - 1)) = pat
  THEN LET n == IF /\ tail # <<>>
                   /\ i + Len(pat) + Len(tail) - 1 <= Len(s)
                   /\ StrLower(SubSeq(s, i + Len(pat), i + Len(pat) + Len(tail) - 1)) = tail
                THEN Len(pat) + Len(tail) ELSE Len(pat)
       IN RemoveLiteralFrom(s, pat, tail, i + n)
  ELSE <<s[i]>> \o RemoveLiteralFrom(s, pat, tail, i + 1)

\* re.sub(r'\[.*?\]', '', s) and re.sub(r'\(.*?\)', '', s)
RECURSIVE RemoveSpans(_, _, _)
RemoveSpans(s, open, close) ==
  IF s = <<>> THEN <<>>
  ELSE IF Head(s) = open /\ \E j \in 2..Len(s) : s[j] = close
  THEN RemoveSpans(SubSeq(s, Min({j \in 2..Len(s) : s[j] = close}) + 1, Len(s)), open, close)
  ELSE <<Head(s)>> \o RemoveSpans(Tail(s), open, close)

\* code of a character, for the digest stand-in
AllChars ==
  UpperChars \o LowerChars \o DigitChars
  \o <<" ",".","_","-","+","(",")","[","]",",",":","?","=","|","^","/","&">>

CharCode(c) ==
  IF \E i \in 1..Len(AllChars) : AllChars[i] = c
  THEN CHOOSE i \in 1..Len(AllChars) : AllChars[i] = c
  ELSE 0

\* ------------------------------------------------------------------------
\* lib/termflix/scripts/group_results.py: configuration
\* ------------------------------------------------------------------------
\* QUALITY_ORDER.get(quality, 99)
GR_get_quality_sort_key(q) ==
  CASE q = <<"4","K">> -> 0 [] q = <<"2","1","6","0","p">> -> 0
    [] q = <<"1","0","8","0","p">> -> 1
    [] q = <<"7","2","0","p">> -> 2
    [] q = <<"4","8","0","p">> -> 3
    [] q = <<"H","D","T","V">> -> 4
    [] q = <<"C","A","M">> -> 5 [] q = <<"T","S">> -> 6 [] q = <<"T","C">> -> 7
    [] q = <<"U","n","k","n","o","w","n">> -> 99
    [] OTHER -> 99

GR_REMOVAL_TAGS ==
  <<<<"2","1","6","0","p">>, <<"1","0","8","0","p">>, <<"7","2","0","p">>, <<"4","8","0","p">>,
     <<"4","k">>, <<"u","h","d">>, <<"f","h","d">>, <<"h","d">>, <<"s","d">>,
     <<"b","l","u","r","a","y">>, <<"b","l","u","-","r","a","y">>, <<"b","d","r","i","p">>,
     <<"b","r","r","i","p">>, <<"w","e","b","-","d","l">>, <<"w","e","b","r","i","p">>,
     <<"w","e","b","d","l">>, <<"h","d","r","i","p">>, <<"d","v","d","r","i","p">>,
     <<"h","d","t","v">>, <<"p","d","t","v">>, <<"c","a","m">>, <<"t","s">>, <<"t","c">>,
     <<"s","c","r","e","e","n","e","r">>, <<"d","v","d","s","c","r">>, <<"r","5">>,
     <<"p","p","v","r","i","p">>, <<"x","2","6","4">>, <<"x","2","6","5">>, <<"x","2","6">>,
     <<"h","e","v","c">>, <<"h","2","6","4">>, <<"h","2","6","5">>, <<"h","2","6">>, <<"a","v","c">>,
     <<"1","0","b","i","t">>, <<"8","b","i","t">>, <<"1","2","b","i","t">>, <<"x","v","i","d">>,
     <<"d","i","v","x">>, <<"a","v","1">>, <<"v","p","9">>, <<"a","a","c">>, <<"a","c","3">>,
     <<"d","t","s">>, <<"t","r","u","e","h","d">>, <<"a","t","m","o","s">>, <<"f","l","a","c">>,
     <<"m","p","3">>, <<"o","g","g">>, <<"o","p","u","s">>, <<"l","p","c","m">>, <<"e","a","c","3">>,
     <<"d","d","5">>, <<"d","d","5","1">>, <<"d","d","7","1">>, <<"d","d","p","5">>,
     <<"d","d","p","5","1">>, <<"d","d","p">>, <<"5","1">>, <<"7","1">>, <<"2","0">>,
     <<"h","d","r">>, <<"h","d","r","1","0">>, <<"h","d","r","1","0","p","l","u","s">>,
     <<"d","o","l","b","y">>, <<"d","o","v","i">>, <<"v","i","s","i","o","n">>, <<"s","d","r">>,
     <<"d","v">>, <<"n","f">>, <<"a","m","z","n">>, <<"d","s","n","p">>, <<"h","m","a","x">>,
     <<"a","t","v","p">>, <<"p","c","o","k">>, <<"h","u","l","u">>, <<"m","a","x">>,
     <<"p","m","t","p">>, <<"n","e","t","f","l","i","x">>, <<"a","m","a","z","o","n">>,
     <<"d","i","s","n","e","y">>, <<"a","p","p","l","e">>, <<"p","e","a","c","o","c","k">>,
     <<"y","t","s">>, <<"y","i","f","y">>, <<"r","a","r","b","g">>, <<"e","z","t","v">>,
     <<"e","t","t","v">>, <<"s","p","a","r","k","s">>, <<"a","x","x","o">>, <<"e","t","h","e","l">>,
     <<"t","e","p","e","s">>, <<"y","t","s"," ","m","x">>, <<"y","t","s"," ","l","t">>,
     <<"t","i","g","o","l","e">>, <<"q","x","r">>, <<"p","s","y","p","h","e","r">>, <<"f">>,
     <<"j","o","y">>, <<"b","o","n","e">>, <<"f","l","u","x">>, <<"i","o","n","1","0">>,
     <<"m","e","g","u","s","t","a">>, <<"p","l","a","y","w","e","b">>, <<"c","m","r","g">>,
     <<"p","s","a">>, <<"t","e","l","l","y">>, <<"n","t","b">>, <<"f","g","t">>, <<"e","v","o">>,
     <<"g","e","c","k","o","s">>, <<"r","e","p","a","c","k">>, <<"p","r","o","p","e","r">>,
     <<"r","e","a","l">>, <<"e","x","t","e","n","d","e","d">>, <<"u","n","r","a","t","e","d">>,
     <<"d","i","r","e","c","t","o","r","s">>, <<"c","u","t">>,
     <<"t","h","e","a","t","r","i","c","a","l">>, <<"r","e","m","a","s","t","e","r","e","d">>,
     <<"i","m","a","x">>, <<"i","n","t","e","r","n","a","l">>, <<"l","i","m","i","t","e","d">>,
     <<"r","e","m","u","x">>, <<"c","r","i","t","e","r","i","o","n">>,
     <<"a","n","n","i","v","e","r","s","a","r","y">>, <<"c","o","m","p","l","e","t","e">>,
     <<"d","c">>, <<"v","2">>, <<"v","3">>, <<"v","4">>, <<"e","n","g","l","i","s","h">>,
     <<"h","i","n","d","i">>, <<"s","p","a","n","i","s","h">>, <<"f","r","e","n","c","h">>,
     <<"g","e","r","m","a","n">>, <<"i","t","a","l","i","a","n">>, <<"r","u","s","s","i","a","n">>,
     <<"k","o","r","e","a","n">>, <<"c","h","i","n","e","s","e">>,
     <<"j","a","p","a","n","e","s","e">>, <<"a","r","a","b","i","c">>,
     <<"p","o","r","t","u","g","u","e","s","e">>, <<"t","u","r","k","i","s","h">>, <<"e","n">>,
     <<"e","n","g">>, <<"h","i","n">>, <<"s","p","a">>, <<"f","r","e">>, <<"g","e","r">>,
     <<"i","t","a">>, <<"r","u","s">>, <<"k","o","r">>, <<"c","h","i">>, <<"j","p","n">>,
     <<"d","u","a","l">>, <<"m","u","l","t","i">>, <<"s","u","b","b","e","d">>,
     <<"d","u","b","b","e","d">>, <<"s","u","b","s">>, <<"h","c">>,
     <<"h","a","r","d","c","o","d","e","d">>, <<"m","a">>,
     <<"l","i","n","e"," ","a","u","d","i","o">>, <<"m","i","c"," ","d","u","b","b","e","d">> >>

\* the tags normalize_title adds to REMOVAL_TAGS
GR_extra_tags ==
  <<<<"p","r","o","p","e","r">>, <<"r","e","a","l">>, <<"l","i","m","i","t","e","d">>,
     <<"e","x","t","e","n","d","e","d">>, <<"u","l","t","i","m","a","t","e">>,
     <<"r","e","p","a","c","k">>, <<"c","r","i","t","e","r","i","o","n">>, <<"u","n","c","u","t">>,
     <<"f","i","n","a","l">>, <<"c","o","m","p","l","e","t","e">>, <<"s","p","e","c","i","a","l">>,
     <<"e","d","i","t","i","o","n">>, <<"r","g","b">>, <<"b","o","n","e">>, <<"e","n">>,
     <<"e","n","g">>, <<"h","i","n">>, <<"h","i","n","d","i">>, <<"t","a","m","i","l">>,
     <<"a","m","z","n">>, <<"n","f">>, <<"h","m","a","x">>, <<"d","s","n","p">>, <<"a","t","v","p">>,
     <<"p","c","o","k">>, <<"h","u","l","u">> >>

\* ROMAN_NUMERALS, in dict order
GR_ROMAN_NUMERALS ==
  << <<<<"i","i">>, <<"2">>>>,
     <<<<"i","i","i">>, <<"3">>>>,
     <<<<"i","v">>, <<"4">>>>,
     <<<<"v">>, <<"5">>>>,
     <<<<"v","i">>, <<"6">>>>,
     <<<<"v","i","i">>, <<"7">>>>,
     <<<<"v","i","i","i">>, <<"8">>>>,
     <<<<"i","x">>, <<"9">>>>,
     <<<<"x">>, <<"1","0">>>> >>

\* hyphen_patterns of normalize_title: (literal, optional tail)
GR_hyphen_patterns ==
  << <<<<"w","e","b","-","d","l">>, <<>>>>,
     <<<<"w","e","b","-","r","i","p">>, <<>>>>,
     <<<<"b","l","u","-","r","a","y">>, <<>>>>,
     <<<<"h","d","r","1">>, <<"0">>>>,
     <<<<"d","t","s","-","h","d">>, <<>>>>,
     <<<<"h","-","2","6","4">>, <<>>>>,
     <<<<"h","-","2","6","5">>, <<>>>>,
     <<<<"d","d","5","-","1">>, <<>>>>,
     <<<<"x","-","2","6","4">>, <<>>>>,
     <<<<"x","-","2","6","5">>, <<>>>> >>

\* the checks of extract_quality, in source order: (substring, label)
GR_quality_checks ==
  << <<<<"2","1","6","0","p">>, <<"4","K">>>>,
     <<<<"4","k">>, <<"4","K">>>>,
     <<<<"u","h","d">>, <<"4","K">>>>,
     <<<<"1","0","8","0","p">>, <<"1","0","8","0","p">>>>,
     <<<<"1","0","8","0","i">>, <<"1","0","8","0","p">>>>,
     <<<<"f","h","d">>, <<"1","0","8","0","p">>>>,
     <<<<"7","2","0","p">>, <<"7","2","0","p">>>>,
     <<<<"h","d">>, <<"7","2","0","p">>>>,
     <<<<"4","8","0","p">>, <<"4","8","0","p">>>>,
     <<<<"s","d">>, <<"4","8","0","p">>>>,
     <<<<"h","d","t","v">>, <<"H","D","T","V">>>>,
     <<<<"c","a","m">>, <<"C","A","M">>>>,
     <<<<"t","s">>, <<"T","S">>>>,
     <<<<"t","e","l","e","s","y","n","c">>, <<"T","S">>>>,
     <<<<"t","c">>, <<"T","C">>>>,
     <<<<"t","e","l","e","c","i","n","e">>, <<"T","C">>>> >>

\* ------------------------------------------------------------------------
\* lib/termflix/scripts/group_results.py: extraction functions
\* ------------------------------------------------------------------------
GR_extract_year(name) ==
  LET paren == {i \in 1..Len(name) :
                  name[i] = "(" /\ IsYearAt(name, i + 1) /\ i + 5 <= Len(name) /\ name[i + 5] = ")"}
      bare == {i \in 1..Len(name) :
                 /\ IsYearAt(name, i)
                 /\ (i = 1 \/ ~IsAlnum(name[i - 1]))
                 /\ (i + 3 = Len(name) \/ ~IsAlnum(name[i + 4]))}
  IN IF paren # {} THEN SubSeq(name, Min(paren) + 1, Min(paren) + 4)
     ELSE IF bare # {} THEN SubSeq(name, Min(bare), Min(bare) + 3)
     ELSE <<>>

Btih == <<"b","t","i","h",":">>

Base32Chars == UpperChars \o <<"2","3","4","5","6","7">>

IsBase32(c) == \E i \in 1..32 : Base32Chars[i] = c

Base32Val(c) == (CHOOSE i \in 1..32 : Base32Chars[i] = c) - 1

HexDigits == <<"0","1","2","3","4","5","6","7","8","9","a","b","c","d","e","f">>

\* base64.b32decode(s).hex() for a 32-character string: 160 bits regrouped in fours
B32ToHex(s) ==
  LET bit(n) == (Base32Val(s[(n \div 5) + 1]) \div (2 ^ (4 - (n % 5)))) % 2
      nib(j) == 8 * bit(4 * j) + 4 * bit(4 * j + 1) + 2 * bit(4 * j + 2) + bit(4 * j + 3)
  IN [j \in 1..40 |-> HexDigits[nib(j - 1) + 1]]

GR_extract_info_hash(magnet) ==
  LET hexAt == {i \in 1..Len(magnet) :
                  /\ i + 44 <= Len(magnet)
                  /\ SubSeq(magnet, i, i + 4) = Btih
                  /\ \A k \in (i + 5)..(i + 44) : IsHex(magnet[k])}
      b32At == {i \in 1..Len(magnet) :
                  /\ i + 36 <= Len(magnet)
                  /\ StrLower(SubSeq(magnet, i, i + 4)) = Btih
                  /\ \A k \in (i + 5)..(i + 36) : IsBase32(magnet[k]) \/ IsLowerAlpha(magnet[k])}
      upper(s) == [k \in 1..Len(s) |->
                     IF IsLowerAlpha(s[k])
                     THEN UpperChars[CHOOSE n \in 1..26 : LowerChars[n] = s[k]] ELSE s[k]]
  IN IF magnet = <<>> THEN <<>>
     ELSE IF hexAt # {} THEN StrLower(SubSeq(magnet, Min(hexAt) + 5, Min(hexAt) + 44))
     ELSE IF b32At # {} THEN B32ToHex(upper(SubSeq(magnet, Min(b32At) + 5, Min(b32At) + 36)))
     ELSE <<>>

GR_extract_quality(name) ==
  LET low == StrLower(name)
      hits == {i \in 1..Len(GR_quality_checks) : Contains(low, GR_quality_checks[i][1])}
  IN IF hits = {} THEN <<"U","n","k","n","o","w","n">>
     ELSE GR_quality_checks[Min(hits)][2]

GR_extract_seeds(text) ==
  LET at == {i \in 1..Len(text) : IsDigit(text[i])}
  IN IF at = {} THEN 0
     ELSE StrToNat(SubSeq(text, Min(at), Min(at) + DigitRun(text, Min(at)) - 1))

GR_extract_imdb_id(line) ==
  LET at == {i \in 1..Len(line) :
               /\ i + 1 <= Len(line)
               /\ line[i] = "t" /\ line[i + 1] = "t"
               /\ DigitRun(line, i + 2) >= 7}
  IN IF at = {} THEN <<>>
     ELSE SubSeq(line, Min(at), Min(at) + 1 + DigitRun(line, Min(at) + 2))

\* hashlib.md5(data).hexdigest()[:16]: a deterministic digest of 16 hex characters
\* (stand-in for the library function: a polynomial digest of the character codes)
RECURSIVE DigestNum(_)
DigestNum(s) ==
  IF s = <<>> THEN 7 ELSE (31 * DigestNum(SubSeq(s, 1, Len(s) - 1)) + CharCode(s[Len(s)])) % 65536

Md5Hex16(data) ==
  LET n == DigestNum(data)
  IN Repeat("0", 12) \o <<HexDigits[((n \div 4096) % 16) + 1], HexDigits[((n \div 256) % 16) + 1],
                         HexDigits[((n \div 16) % 16) + 1], HexDigits[(n % 16) + 1]>>

GR_compute_data_hash(name, size, source) ==
  LET norm_name == SelectSeq(StrLower(name), LAMBDA c : IsLowerAlpha(c) \/ IsDigit(c))
  IN Md5Hex16(norm_name \o <<":">> \o size \o <<":">> \o source)

\* ------------------------------------------------------------------------
\* lib/termflix/scripts/group_results.py: normalize_title
\* ------------------------------------------------------------------------
RECURSIVE GR_remove_hyphen_patterns(_, _)
GR_remove_hyphen_patterns(t, k) ==
  IF t = <<>> \/ k > Len(GR_hyphen_patterns) THEN t
  ELSE GR_remove_hyphen_patterns(
         IF Contains(StrLower(t), GR_hyphen_patterns[k][1])
         THEN RemoveLiteralFrom(t, GR_hyphen_patterns[k][1], GR_hyphen_patterns[k][2], 1)
         ELSE t, k + 1)

\* for tag in tags[k..]: t = re.sub(r'\b' + tag + r'\b', '', t), in list order;
\* the loop is advanced to the next tag that occurs in t, the others leave t as it is
RECURSIVE RemoveTagsFrom(_, _, _)
RemoveTagsFrom(t, tags, k) ==
  LET next == {j \in k..Len(tags) : Contains(t, tags[j])}
  IN IF next = {} THEN t
     ELSE RemoveTagsFrom(ReplaceWordFrom(t, tags[Min(next)], <<>>, 1), tags, Min(next) + 1)

RemoveTags(t, tags) == RemoveTagsFrom(t, tags, 1)

RECURSIVE GR_roman(_, _)
GR_roman(t, k) ==
  IF t = <<>> \/ k > Len(GR_ROMAN_NUMERALS) THEN t
  ELSE GR_roman(ReplaceWord(t, GR_ROMAN_NUMERALS[k][1], GR_ROMAN_NUMERALS[k][2]), k + 1)

\* re.sub(r'\bv\d+\b', '', t)
RECURSIVE RemoveVersions(_, _)
RemoveVersions(s, i) ==
  IF i > Len(s) THEN <<>>
  ELSE IF /\ s[i] = "v"
          /\ (i = 1 \/ ~IsWord(s[i - 1]))
          /\ DigitRun(s, i + 1) >= 1
          /\ (i + DigitRun(s, i + 1) = Len(s) \/ ~IsWord(s[i + 1 + DigitRun(s, i + 1)]))
  THEN RemoveVersions(s, i + 1 + DigitRun(s, i + 1))
  ELSE <<s[i]>> \o RemoveVersions(s, i + 1)

\* length of the run of [a-z] that ends the string
RECURSIVE TrailingAlpha(_)
TrailingAlpha(s) ==
  IF s # <<>> /\ IsLowerAlpha(s[Len(s)]) THEN 1 + TrailingAlpha(SubSeq(s, 1, Len(s) - 1)) ELSE 0

\* re.sub(r'\s+[a-z]{1,5}$', '', t)
RemoveTrailingShortWord(t) ==
  LET k == TrailingAlpha(t)
  IN IF k >= 1 /\ k <= 5 /\ Len(t) > k /\ IsSpace(t[Len(t) - k])
     THEN RStrip(SubSeq(t, 1, Len(t) - k))
     ELSE t

\* re.sub(r',\s*the\s*$', '', t)
StripTheSuffixSp(t) ==
  LET r == RStrip(t)
  IN IF StripTheSuffix(r) # r THEN StripTheSuffix(r) ELSE t

GR_normalize_title(title, year) ==
  IF title = <<>> THEN <<>>
  ELSE LET t0 == Strip(title)
           yAt == {i \in 1..Len(t0) : IsYearAt(t0, i)}
           extracted_year == IF yAt # {} THEN SubSeq(t0, Min(yAt), Min(yAt) + 3) ELSE year
           t2 == RemoveSpans(RemoveSpans(t0, "[", "]"), "(", ")")
           t3 == IF extracted_year # <<>> THEN ReplaceWord(t2, extracted_year, <<>>) ELSE t2
           t4 == GR_remove_hyphen_patterns(t3, 1)
           t5 == [i \in 1..Len(t4) |-> IF t4[i] \in {".", "_", "-", "+"} THEN " " ELSE t4[i]]
           t6 == StrLower(t5)
           t7 == StripTheSuffixSp(StripThePrefix(t6))
           t8 == RemoveTags(t7, GR_REMOVAL_TAGS \o GR_extra_tags)
           t9 == RemoveVersions(t8, 1)
           t10 == RemoveTrailingShortWord(t9)
           t11 == GR_roman(t10, 1)
           t12 == SelectSeq(t11, LAMBDA c : IsLowerAlpha(c) \/ IsDigit(c) \/ IsSpace(c))
       IN Strip(CollapseSpaces(t12))

\* ------------------------------------------------------------------------
\* lib/termflix/scripts/group_results.py: output functions
\* ------------------------------------------------------------------------
Unknown == <<"U","n","k","n","o","w","n">>

NA == <<"N","/","A">>

CombinedTag == <<"C","O","M","B","I","N","E","D">>

\* str.startswith
StartsWith(s, p) == Len(p) <= Len(s) /\ SubSeq(s, 1, Len(p)) = p

\* str.find for a substring that occurs
Find(s, p) == Min({i \in 1..(Len(s) - Len(p) + 1) : SubSeq(s, i, i + Len(p) - 1) = p}) - 1

GR_calculate_relevance_score(title, query) ==
  IF query = <<>> THEN 0
  ELSE LET title_lower == Strip(StrLower(title))
           query_lower == Strip(StrLower(query))
       IN IF title_lower = query_lower THEN 1000
          ELSE IF StartsWith(title_lower, query_lower) THEN 100
          ELSE IF Contains(title_lower, query_lower)
          THEN LET position == Find(title_lower, query_lower)
               IN 10 + (IF 40 - (position * 2) > 0 THEN 40 - (position * 2) ELSE 0)
          ELSE 0

\* first item of the list that satisfies the test, or the default
FirstWith(items, Test(_), Get(_), default) ==
  IF \E i \in 1..Len(items) : Test(items[i])
  THEN Get(items[Min({i \in 1..Len(items) : Test(items[i])})])
  ELSE default

\* re.search(r'\d{4}', s)
HasFourDigits(s) == \E i \in 1..Len(s) : DigitRun(s, i) >= 4

\* "Pick best display name (prefer one with year)", shared by both print_combined
BestName(items, preferred_year) ==
  IF preferred_year # <<>>
  THEN FirstWith(items, LAMBDA it : Contains(it.name, preferred_year),
                 LAMBDA it : it.name, items[1].name)
  ELSE FirstWith(items, LAMBDA it : HasFourDigits(it.name), LAMBDA it : it.name, items[1].name)

\* quality_items.sort(key=get_quality_sort_key): stable
RECURSIVE GR_sort_qualities(_)
GR_sort_qualities(qs) ==
  IF qs = <<>> THEN <<>>
  ELSE LET init == GR_sort_qualities(SubSeq(qs, 1, Len(qs) - 1))
           x == qs[Len(qs)]
           k == Cardinality({i \in 1..Len(init) :
                  GR_get_quality_sort_key(init[i]) <= GR_get_quality_sort_key(x)})
       IN SubSeq(init, 1, k) \o <<x>> \o SubSeq(init, k + 1, Len(init))

Field(items, Get(_)) == [i \in 1..Len(items) |-> Get(items[i])]

\* the per-torrent lists of print_combined: sources, qualities, seeds, sizes, magnets
GR_combined_lists(items) ==
  [sources |-> Dedupe(Field(items, LAMBDA it : it.source)),
   qualities |-> Dedupe(GR_sort_qualities(Field(items, LAMBDA it : it.quality))),
   seeds |-> Field(items, LAMBDA it : NatToStr(it.seeds)),
   sizes |-> Dedupe(Field(items, LAMBDA it : it.size)),
   magnets |-> Field(items, LAMBDA it : it.magnet)]

\* what print_combined prints: no line, the original line, or one COMBINED line
GR_print_combined(items, preferred_year) ==
  IF items = <<>> THEN <<>>
  ELSE IF Len(items) = 1 THEN <<items[1].original>>
  ELSE LET l == GR_combined_lists(items)
           best_poster == FirstWith(items, LAMBDA it : it.poster # <<>> /\ it.poster # NA,
                                    LAMBDA it : it.poster, NA)
           imdb_id == FirstWith(items, LAMBDA it : it.imdb_id # <<>>,
                                LAMBDA it : it.imdb_id, <<>>)
       IN << Join(<< CombinedTag, BestName(items, preferred_year),
                     Join(l.sources, "^"), Join(l.qualities, "^"), Join(l.seeds, "^"),
                     Join(l.sizes, "^"), Join(l.magnets, "^"),
                     best_poster, imdb_id, NatToStr(Len(items)) >>, "|") >>

\* ------------------------------------------------------------------------
\* lib/termflix/scripts/group_results.py: main
\* ------------------------------------------------------------------------
DataPrefix == <<"d","a","t","a","_">>

\* an identity without the prefix of the fallback
GR_identity_unprefixed(source, name, magnet, size) ==
  IF GR_extract_info_hash(magnet) # <<>> THEN GR_extract_info_hash(magnet)
  ELSE GR_compute_data_hash(name, size, source)

\* "Extract hash for deduplication": the identity of a record
GR_identity(source, name, magnet, size) ==
  IF GR_extract_info_hash(magnet) # <<>> THEN GR_extract_info_hash(magnet)
  ELSE DataPrefix \o GR_compute_data_hash(name, size, source)

\* quality_raw.split()[0]; <<>> stands for the IndexError of an all-blank string
FirstToken(s) ==
  LET t == LStrip(s)
      sp == {i \in 1..Len(t) : IsSpace(t[i])}
  IN IF sp = {} THEN t ELSE SubSeq(t, 1, Min(sp) - 1)

GroupIndex(groups, key) ==
  IF \E i \in 1..Len(groups) : groups[i].key = key
  THEN CHOOSE i \in 1..Len(groups) : groups[i].key = key
  ELSE 0

\* group_key = f"{title}_{year}" if year else title
GR_group_key(title, year) == IF year # <<>> THEN title \o <<"_">> \o year ELSE title

\* defaultdict(list)[key].append(item)
GroupAppend(groups, key, item) ==
  IF GroupIndex(groups, key) = 0
  THEN Append(groups, [key |-> key, items |-> <<item>>])
  ELSE [groups EXCEPT ![GroupIndex(groups, key)].items = Append(@, item)]

\* a dedup test that never finds a duplicate
GR_is_seen_never(h, seen) == FALSE

\* the dedup test of main
GR_is_seen(h, seen) == h \in seen

\* one iteration of the first pass of main on one stripped input line
GR_first_pass(seen, groups, line) ==
  LET parts == Split(line, "|")
      keep == [seen |-> seen, groups |-> groups, crashed |-> FALSE]
  IN IF line = <<>> \/ ~Contains(line, <<"|">>) THEN keep
     ELSE IF Len(parts) < 6 THEN keep
     ELSE LET source == parts[1]
              name == parts[2]
              magnet == parts[3]
              quality_raw == parts[4]
              size == parts[5]
              seeds_text == parts[6]
              poster == IF Len(parts) > 6 THEN parts[7] ELSE NA
              info_hash == GR_identity(source, name, magnet, size)
              year == GR_extract_year(name)
              title == GR_normalize_title(name, year)
              quality == GR_extract_quality(name)
              item == [original |-> line, source |-> source, name |-> name, magnet |-> magnet,
                       quality |-> IF quality # Unknown THEN quality
                                   ELSE IF quality_raw # <<>> THEN FirstToken(quality_raw)
                                   ELSE Unknown,
                       size |-> size, seeds |-> GR_extract_seeds(seeds_text), poster |-> poster,
                       year |-> year, imdb_id |-> GR_extract_imdb_id(line), hash |-> info_hash]
          IN IF GR_is_seen(info_hash, seen) THEN keep
             ELSE IF title = <<>>
             THEN [seen |-> seen \cup {info_hash}, groups |-> groups, crashed |-> FALSE]
             ELSE IF quality = Unknown /\ quality_raw # <<>> /\ FirstToken(quality_raw) = <<>>
             THEN \* IndexError out of main
                  [seen |-> seen \cup {info_hash}, groups |-> groups, crashed |-> TRUE]
             ELSE [seen |-> seen \cup {info_hash},
                   groups |-> GroupAppend(groups, GR_group_key(title, year), item),
                   crashed |-> FALSE]

RECURSIVE SumSeeds(_)
SumSeeds(items) == IF items = <<>> THEN 0 ELSE Head(items).seeds + SumSeeds(Tail(items))

\* set(i['year'] for i in items if i['year'])
KnownYears(items) == {items[i].year : i \in {j \in 1..Len(items) : items[j].year # <<>>}}

UnknownYear == <<"u","n","k","n","o","w","n">>

\* by_year of the split branch: the items of a title group bucketed by year, in first-seen order
RECURSIVE ByYear(_)
ByYear(items) ==
  IF items = <<>> THEN <<>>
  ELSE LET init == ByYear(SubSeq(items, 1, Len(items) - 1))
           it == items[Len(items)]
       IN GroupAppend(init, IF it.year # <<>> THEN it.year ELSE UnknownYear, it)

\* the entries (relevance, total_seeds, items, preferred_year) one title group contributes
GR_group_entries(items, search_query) ==
  IF Cardinality(KnownYears(items)) <= 1
  THEN << [relevance |-> GR_calculate_relevance_score(items[1].name, search_query),
           total_seeds |-> SumSeeds(items), items |-> items,
           preferred_year |-> IF KnownYears(items) # {}
                              THEN CHOOSE y \in KnownYears(items) : TRUE ELSE <<>>] >>
  ELSE LET by == ByYear(items)
       IN [k \in 1..Len(by) |->
             [relevance |-> GR_calculate_relevance_score(by[k].items[1].name, search_query),
              total_seeds |-> SumSeeds(by[k].items), items |-> by[k].items,
              preferred_year |-> IF by[k].key # UnknownYear THEN by[k].key ELSE <<>>]]

RECURSIVE GR_grouped_output(_, _)
GR_grouped_output(groups, search_query) ==
  IF groups = <<>> THEN <<>>
  ELSE GR_group_entries(Head(groups).items, search_query)
       \o GR_grouped_output(Tail(groups), search_query)

\* grouped_output.sort(key=lambda x: (-x[0], -x[1])): stable
RECURSIVE GR_sort_output(_)
GR_sort_output(es) ==
  IF es = <<>> THEN <<>>
  ELSE LET init == GR_sort_output(SubSeq(es, 1, Len(es) - 1))
           x == es[Len(es)]
           before(e) == \/ e.relevance > x.relevance
                        \/ e.relevance = x.relevance /\ e.total_seeds >= x.total_seeds
           k == Cardinality({i \in 1..Len(init) : before(init[i])})
       IN SubSeq(init, 1, k) \o <<x>> \o SubSeq(init, k + 1, Len(init))

RECURSIVE GR_print_all(_)
GR_print_all(es) ==
  IF es = <<>> THEN <<>>
  ELSE GR_print_combined(Head(es).items, Head(es).preferred_year) \o GR_print_all(Tail(es))

\* ------------------------------------------------------------------------
\* bin/termflix_scripts/group_results.py
\* ------------------------------------------------------------------------
\* the two year patterns are those of the lib variant
GRB_extract_year(name) == GR_extract_year(name)

GRB_tags ==
  <<<<"1","0","8","0","p">>, <<"7","2","0","p">>, <<"4","8","0","p">>, <<"b","l","u","r","a","y">>,
     <<"w","e","b","-","d","l">>, <<"w","e","b","r","i","p">>, <<"h","d","r">>,
     <<"h","d","r","i","p">>, <<"t","s">>, <<"t","c">>, <<"c","a","m">>, <<"r","i","p">>,
     <<"x","2","6","4">>, <<"x","2","6","5">>, <<"h","e","v","c">>, <<"a","a","c">>, <<"y","t","s">>,
     <<"y","i","f","y">>, <<"r","a","r","b","g">>, <<"e","z","t","v">> >>

\* every step after the separator replacement ignores letter case, so the final lower() is
\* applied first here
GRB_normalize_title(title, year) ==
  LET t0 == StrLower([i \in 1..Len(title) |->
                        IF title[i] \in {".", "_", "-", "+"} THEN " " ELSE title[i]])
      t1 == IF year # <<>> THEN RemoveLiteralFrom(t0, year, <<>>, 1) ELSE t0
      t2 == RemoveSpans(RemoveSpans(t1, "(", ")"), "[", "]")
      t3 == RemoveVersions(RemoveTags(t2, GRB_tags), 1)
      t4 == SelectSeq(t3, LAMBDA c : IsLowerAlpha(c) \/ IsDigit(c) \/ c = " ")
  IN Strip(CollapseSpaces(t4))

GRB_print_combined(items, preferred_year) ==
  IF items = <<>> THEN <<>>
  ELSE IF Len(items) = 1 THEN <<items[1].original>>
  ELSE LET best_poster == FirstWith(items, LAMBDA it : it.poster # <<>> /\ it.poster # NA,
                                    LAMBDA it : it.poster, NA)
       IN << Join(<< CombinedTag, BestName(items, preferred_year),
                     Join(Field(items, LAMBDA it : it.source), "^"),
                     Join(Field(items, LAMBDA it : it.quality), "^"),
                     Join(Field(items, LAMBDA it : NatToStr(it.seeds)), "^"),
                     Join(Field(items, LAMBDA it : it.size), "^"),
                     Join(Field(items, LAMBDA it : it.magnet), "^"),
                     best_poster >>, "|") >>

\* one iteration of the first pass of main on one stripped input line
GRB_first_pass(groups, line) ==
  LET parts == Split(line, "|")
  IN IF line = <<>> \/ ~Contains(line, <<"|">>) THEN groups
     ELSE IF Len(parts) < 6 THEN groups
     ELSE LET name == parts[2]
              year == GRB_extract_year(name)
              title == GRB_normalize_title(name, year)
              item == [original |-> line, source |-> parts[1], name |-> name,
                       magnet |-> parts[3], quality |-> parts[4], size |-> parts[5],
                       seeds |-> GR_extract_seeds(parts[6]),
                       poster |-> IF Len(parts) > 6 THEN parts[7] ELSE NA, year |-> year]
          IN IF title = <<>> THEN groups ELSE GroupAppend(groups, title, item)

\* a second pass that prints every title group whole
GRB_group_entries_no_split(items) == << [items |-> items, preferred_year |-> <<>>] >>

\* a second pass whose split keeps the items that carry a year only
GRB_group_entries_known_years(items) ==
  IF Cardinality(KnownYears(items)) <= 1
  THEN << [items |-> items,
           preferred_year |-> IF KnownYears(items) = {} THEN <<>>
                              ELSE CHOOSE y \in KnownYears(items) : TRUE] >>
  ELSE LET by == SelectSeq(ByYear(items), LAMBDA b : b.key # UnknownYear)
       IN [k \in 1..Len(by) |-> [items |-> by[k].items, preferred_year |-> by[k].key]]

\* the print_combined calls one title group makes in the second pass: (items, preferred_year)
GRB_group_entries(items) ==
  IF Cardinality(KnownYears(items)) = 0
  THEN << [items |-> items, preferred_year |-> <<>>] >>
  ELSE IF Cardinality(KnownYears(items)) = 1
  THEN << [items |-> items, preferred_year |-> CHOOSE y \in KnownYears(items) : TRUE] >>
  ELSE LET by == ByYear(items)
       IN [k \in 1..Len(by) |->
             [items |-> by[k].items,
              preferred_year |-> IF by[k].key # UnknownYear THEN by[k].key ELSE <<>>]]

RECURSIVE GRB_entries(_)
GRB_entries(groups) ==
  IF groups = <<>> THEN <<>>
  ELSE GRB_group_entries(Head(groups).items) \o GRB_entries(Tail(groups))

RECURSIVE GRB_print_all(_)
GRB_print_all(es) ==
  IF es = <<>> THEN <<>>
  ELSE GRB_print_combined(Head(es).items, Head(es).preferred_year) \o GRB_print_all(Tail(es))

\* ------------------------------------------------------------------------
\* group_results: the input lines of a run
\* ------------------------------------------------------------------------
\* number of input lines group_results.main reads in one run
MaxLines == 3

H1 == <<"a","b">> \o Repeat("1", 38)

H1Upper == <<"A","B">> \o Repeat("1", 38)

\* base32 text of the 20 bytes of H1
H1Base32 ==
  <<"V","M","I","R","C","E","I","R","C","E","I","R","C","E","I","R",
    "C","E","I","R","C","E","I","R","C","E","I","R","C","E","I","R">>

H2 == <<"c","d">> \o Repeat("2", 38)

H3 == <<"e","f">> \o Repeat("3", 38)

H4 == <<"0","4">> \o Repeat("4", 38)

GRLines ==
  { Join(<< <<"Y","T","S">>, <<"T","o","t","a","l"," ","R","e","c","a","l","l"," ","(","1","9","9","0",")">>, Magnet(H1), <<"1","0","8","0","p">>, <<"1","G","B">>, <<"5","0">>, <<"p","1">> >>, "|"),
    Join(<< <<"T","P","B">>, <<"T","o","t","a","l",".","R","e","c","a","l","l",".","1","9","9","0",".","7","2","0","p">>, Magnet(H1Upper), <<"7","2","0","p">>, <<"2","G","B">>, <<"9","0">> >>, "|"),
    Join(<< <<"T","P","B">>, <<"T","o","t","a","l"," ","R","e","c","a","l","l"," ","1","9","9","0">>, Magnet(H1Base32), <<"7","2","0","p">>, <<"2","G","B">>, <<"3">> >>, "|"),
    Join(<< <<"T","P","B">>, <<"T","o","t","a","l"," ","R","e","c","a","l","l"," ","1","9","9","0">>, Magnet(H4), <<"1","0","8","0","p">>, <<"1","G","B">>, <<"8">> >>, "|"),
    Join(<< <<"T","P","B">>, <<"T","o","t","a","l"," ","R","e","c","a","l","l"," ","2","0","1","2">>, Magnet(H2), <<"7","2","0","p">>, <<"2","G","B">>, <<"7">> >>, "|"),
    Join(<< <<"T","P","B">>, <<"T","o","t","a","l"," ","R","e","c","a","l","l">>, Magnet(H3), <<"4","8","0","p">>, <<"1","G","B">>, <<"5">> >>, "|"),
    Join(<< <<"E","Z","T","V">>, <<"H","e","a","t">>, <<"m","a","g","n","e","t",":","?","x","t","=","u","r","n",":","s","h","a","1",":","x">>, <<" ">>, <<"1","G","B">>, <<"4">> >>, "|") }

GRQueries == { <<>>, <<"r","e","c","a","l","l">> }

\* ------------------------------------------------------------------------
\* group_results.py as a process: one action per input line, one for the second pass
\* ------------------------------------------------------------------------
\* main reads a line of stdin and, in its first pass, files it under a group
gr_line(l) ==
  /\ prog = "group_results"
  /\ gr_pc = "first_pass"
  /\ Len(gr_results) < MaxLines
  /\ gr_results' = Append(gr_results, l)
  /\ IF gr_variant = "lib"
     THEN LET r == GR_first_pass(gr_seen, gr_groups, Strip(l))
          IN /\ gr_seen' = r.seen
             /\ gr_groups' = r.groups
             /\ gr_pc' = IF r.crashed THEN "crashed" ELSE "first_pass"
     ELSE /\ gr_groups' = GRB_first_pass(gr_groups, Strip(l))
          /\ UNCHANGED <<gr_seen, gr_pc>>
  /\ UNCHANGED <<gr_variant, gr_query, gr_entries, gr_out>>
  /\ gr_frame

\* end of input: the second pass of main and its prints
gr_second_pass ==
  /\ prog = "group_results"
  /\ gr_pc = "first_pass"
  /\ LET es == IF gr_variant = "lib"
               THEN GR_sort_output(GR_grouped_output(gr_groups, gr_query))
               ELSE GRB_entries(gr_groups)
     IN /\ gr_entries' = [k \in 1..Len(es) |->
                            [items |-> es[k].items, preferred_year |-> es[k].preferred_year]]
        /\ gr_out' = IF gr_variant = "lib" THEN GR_print_all(es) ELSE GRB_print_all(es)
  /\ gr_pc' = "done"
  /\ UNCHANGED <<gr_variant, gr_query, gr_results, gr_seen, gr_groups>>
  /\ gr_frame

GrInit ==
  /\ gr_variant \in {"lib", "bin"}
  /\ gr_query \in GRQueries
  /\ gr_results = <<>>
  /\ gr_seen = {}
  /\ gr_groups = <<>>
  /\ gr_pc = "first_pass"
  /\ gr_entries = <<>>
  /\ gr_out = <<>>

GrNext ==
  \/ \E l \in GRLines : gr_line(l)
  \/ gr_second_pass

\* ------------------------------------------------------------------------
\* bin/scripts/fetch_multi_source_catalog.py: the source fetches
\* ------------------------------------------------------------------------
YTS == <<"Y","T","S">>

TPB == <<"T","P","B">>

\* YTS API domains, in order of preference
YTS_DOMAINS == <<"yts.lt", "yts.do", "yts.mx">>

\* attempts fetch_url makes on one URL
FM_MAX_RETRIES == 2

\* search_tpb reads the first results only: data[:10]
FM_TPB_TOP == 10

\* What one urlopen attempt gives: kind "none" when it raises (refused, timed out, HTTP
\* error), otherwise the body received: "garbage" (not JSON), "yts_ok" (a YTS answer with
\* status ok, data its movies), "yts_error" (a YTS answer with another status), "tpb" (a
\* JSON list, data its items).
NoResponse == [kind |-> "none", data |-> <<>>]

\* fetch_url: the body of the first of MAX_RETRIES attempts that answers, None otherwise
FM_fetch_url(attempts) ==
  LET ok == {k \in 1..FM_MAX_RETRIES : attempts[k].kind # "none"}
  IN IF ok = {} THEN NoResponse ELSE attempts[Min(ok)]

\* how the requests of one fetch ended, for the history: some attempt was answered, or none
NetOf(answers) ==
  IF \E d \in 1..Len(answers) : FM_fetch_url(answers[d]).kind # "none"
  THEN {"answered"} ELSE {"failed"}

\* get_cached: a fresh file exists under the key
FM_has_cached(entries, key) == \E e \in entries : e.key = key

\* get_cached followed by json.loads
FM_get_cached(entries, key) == (CHOOSE e \in entries : e.key = key).data

\* set_cache
FM_set_cache(entries, key, data) ==
  {e \in entries : e.key # key} \cup {[key |-> key, data |-> data]}

\* one entry of parse_yts_torrents and of search_yts
FM_yts_torrent(t) ==
  [source |-> YTS, hash |-> StrLower(t.hash), quality |-> t.quality, size |-> t.size,
   seeds |-> t.seeds, magnet |-> Magnet(t.hash)]

RECURSIVE FM_yts_torrents(_)
FM_yts_torrents(ts) ==
  IF ts = <<>> THEN <<>>
  ELSE IF Head(ts).hash = <<>> THEN FM_yts_torrents(Tail(ts))
  ELSE <<FM_yts_torrent(Head(ts))>> \o FM_yts_torrents(Tail(ts))

FM_parse_yts_torrents(movie) == FM_yts_torrents(movie.torrents)

RECURSIVE FM_yts_list_from(_, _)
\* fetch_yts_movies, the loop over YTS_DOMAINS from domain d on: the movies of the first
\* domain whose answer parses with status ok
FM_yts_list_from(answers, d) ==
  IF d > Len(YTS_DOMAINS) THEN [found |-> FALSE, movies |-> <<>>]
  ELSE LET response == FM_fetch_url(answers[d])
       IN IF response.kind = "yts_ok" THEN [found |-> TRUE, movies |-> response.data]
          ELSE FM_yts_list_from(answers, d + 1)

FM_fetch_yts_movies(cache, key, answers) ==
  IF FM_has_cached(cache.yts_list, key)
  THEN [movies |-> FM_get_cached(cache.yts_list, key), cache |-> cache, net |-> {"cache"}]
  ELSE With(FM_yts_list_from(answers, 1), LAMBDA r :
         [movies |-> r.movies,
          cache |-> IF r.found
                    THEN [cache EXCEPT !.yts_list = FM_set_cache(@, key, r.movies)]
                    ELSE cache,
          net |-> NetOf(answers)])

RECURSIVE FM_movies_torrents(_)
\* search_yts: the torrents of all the movies found, in order
FM_movies_torrents(ms) ==
  IF ms = <<>> THEN <<>>
  ELSE FM_yts_torrents(Head(ms).torrents) \o FM_movies_torrents(Tail(ms))

FM_search_yts(cache, query, answers) ==
  IF FM_has_cached(cache.yts_search, query)
  THEN [torrents |-> FM_get_cached(cache.yts_search, query), cache |-> cache,
        net |-> {"cache"}]
  ELSE With(FM_yts_list_from(answers, 1), LAMBDA r :
         With(FM_movies_torrents(r.movies), LAMBDA torrents :
           [torrents |-> torrents,
            cache |-> IF r.found
                      THEN [cache EXCEPT !.yts_search = FM_set_cache(@, query, torrents)]
                      ELSE cache,
            net |-> NetOf(answers)]))

\* the (pattern, label) checks of extract_quality, in source order
FM_qualities ==
  << <<<<"2","1","6","0","p">>, <<"4","K">>>>, <<<<"4","k">>, <<"4","K">>>>,
     <<<<"u","h","d">>, <<"4","K">>>>,
     <<<<"1","0","8","0","p">>, <<"1","0","8","0","p">>>>,
     <<<<"f","h","d">>, <<"1","0","8","0","p">>>>,
     <<<<"7","2","0","p">>, <<"7","2","0","p">>>>,
     <<<<"4","8","0","p">>, <<"4","8","0","p">>>> >>

FM_extract_quality(name) ==
  LET name_lower == StrLower(name)
      hits == {i \in 1..Len(FM_qualities) : Contains(name_lower, FM_qualities[i][1])}
  IN IF hits = {} THEN Unknown ELSE FM_qualities[Min(hits)][2]

\* int() of a JSON string: a value for a digit string, ValueError otherwise
IsInt(s) == s # <<>> /\ \A i \in 1..Len(s) : IsDigit(s[i])

\* f"{size_mb}MB" if size_mb < 1024 else f"{size_mb/1024:.1f}GB"; the quotient is exact in
\* binary, so .1f rounds it to the nearest tenth, a tie to the even tenth
FM_size_str(size_mb) ==
  IF size_mb < 1024 THEN NatToStr(size_mb) \o <<"M","B">>
  ELSE LET q == (size_mb * 10) \div 1024
           r == (size_mb * 10) % 1024
           tenths == IF 2 * r > 1024 \/ (2 * r = 1024 /\ q % 2 = 1) THEN q + 1 ELSE q
       IN NatToStr(tenths \div 10) \o <<".">> \o NatToStr(tenths % 10) \o <<"G","B">>

NoResultsName ==
  <<"N","o"," ","r","e","s","u","l","t","s"," ","r","e","t","u","r","n","e","d">>

\* the torrent search_tpb builds from one item of the answer
FM_tpb_torrent(item) ==
  [source |-> TPB, hash |-> StrLower(item.info_hash),
   quality |-> FM_extract_quality(item.name),
   size |-> FM_size_str(StrToNat(item.size) \div (1024 * 1024)),
   seeds |-> StrToNat(item.seeders), magnet |-> Magnet(item.info_hash), name |-> item.name]

\* search_tpb, the try block on a JSON list: raised is the int() of a seeders or size
\* field failing on an item with a usable hash, which the except clause turns into []
FM_parse_tpb(data) ==
  LET top == SubSeq(data, 1, IF Len(data) < FM_TPB_TOP THEN Len(data) ELSE FM_TPB_TOP)
  IN With(SelectSeq(top, LAMBDA item : item.info_hash # <<>> /\ item.info_hash # ZeroHash),
          LAMBDA usable :
     IF Len(data) = 1 /\ data[1].name = NoResultsName
     THEN [torrents |-> <<>>, store |-> FALSE]
     ELSE IF \E i \in 1..Len(usable) : ~IsInt(usable[i].seeders) \/ ~IsInt(usable[i].size)
     THEN [torrents |-> <<>>, store |-> FALSE]
     ELSE [torrents |-> [i \in 1..Len(usable) |-> FM_tpb_torrent(usable[i])], store |-> TRUE])

FM_search_tpb(cache, query, attempts) ==
  IF FM_has_cached(cache.tpb, query)
  THEN [torrents |-> FM_get_cached(cache.tpb, query), cache |-> cache, net |-> {"cache"}]
  ELSE LET response == FM_fetch_url(attempts)
       IN With(IF response.kind = "tpb" THEN FM_parse_tpb(response.data)
               ELSE [torrents |-> <<>>, store |-> FALSE], LAMBDA r :
            [torrents |-> r.torrents,
             cache |-> IF r.store
                       THEN [cache EXCEPT !.tpb = FM_set_cache(@, query, r.torrents)]
                       ELSE cache,
             net |-> NetOf(<<attempts>>)])

\* ------------------------------------------------------------------------
\* bin/scripts/fetch_multi_source_catalog.py: aggregation
\* ------------------------------------------------------------------------
\* sep.join(parts) for a separator of any length
RECURSIVE JoinStr(_, _)
JoinStr(parts, sep) ==
  IF parts = <<>> THEN <<>>
  ELSE IF Len(parts) = 1 THEN parts[1]
  ELSE parts[1] \o sep \o JoinStr(Tail(parts), sep)

\* list.sort(key=Key, reverse=True): descending in the key, equal keys in their old order
StableSortDescBy(xs, Key(_)) ==
  LET n == Len(xs)
      keys == [i \in 1..n |-> Key(xs[i])]
      pos == [i \in 1..n |->
                Cardinality({j \in 1..n : keys[j] > keys[i]})
                  + Cardinality({j \in 1..(i - 1) : keys[j] = keys[i]}) + 1]
  IN [p \in 1..n |-> xs[CHOOSE i \in 1..n : pos[i] = p]]

\* None, the result of aggregate_movie for a movie it emits nothing for
NoLine == <<>>

RECURSIVE FM_merge(_, _, _)
\* the deduplicating loops of aggregate_movie: the torrents of more whose hash is not seen
\* yet and whose source is set are appended
FM_merge(all_torrents, seen_hashes_, more) ==
  IF more = <<>> THEN [torrents |-> all_torrents, seen |-> seen_hashes_]
  ELSE LET t == Head(more)
       IN IF t.hash \notin seen_hashes_ /\ t.source # <<>>
          THEN FM_merge(Append(all_torrents, t), seen_hashes_ \cup {t.hash}, Tail(more))
          ELSE FM_merge(all_torrents, seen_hashes_, Tail(more))

\* all_torrents.sort(key=lambda x: x['seeds'], reverse=True)
FM_sort_torrents(ts) == StableSortDescBy(ts, LAMBDA t : t.seeds)

\* aggregate_movie up to the sort: the torrents of the line, in the order of the line
FM_all_torrents(movie, tpb_torrents, yts_search_torrents) ==
  With(FM_parse_yts_torrents(movie), LAMBDA yts :
    With(FM_merge(yts, {yts[i].hash : i \in 1..Len(yts)}, tpb_torrents), LAMBDA m1 :
      With(FM_merge(m1.torrents, m1.seen, yts_search_torrents), LAMBDA m2 :
        FM_sort_torrents(SelectSeq(m2.torrents, LAMBDA t : t.source # <<>>)))))

\* f"{rating}/10" if rating else 'N/A'
FM_rating_str(rating) == IF rating # 0 THEN NatToStr(rating) \o <<"/","1","0">> ELSE NA

\* ', '.join(genres) if genres else 'Unknown'
FM_genre_str(genres) == IF genres # <<>> THEN JoinStr(genres, <<",", " ">>) ELSE Unknown

\* the COMBINED line of a movie and its torrents
FM_combined(display_title, torrents, poster, rating, genres) ==
  Join(<< CombinedTag, display_title,
          Join(Field(torrents, LAMBDA t : t.source), "^"),
          Join(Field(torrents, LAMBDA t : t.quality), "^"),
          Join(Field(torrents, LAMBDA t : NatToStr(t.seeds)), "^"),
          Join(Field(torrents, LAMBDA t : t.size), "^"),
          Join(Field(torrents, LAMBDA t : t.magnet), "^"),
          poster, FM_rating_str(rating), FM_genre_str(genres),
          NatToStr(Len(torrents)) >>, "|")

\* f"{title} ({year})"
FM_display_title(title, year) == title \o <<" ", "(">> \o year \o <<")">>

\* a variant that gives up on a movie whose TPB search brought nothing
FM_aggregate_movie_needs_tpb(movie, tpb_torrents, yts_search_torrents) ==
  IF movie.title = <<>> \/ tpb_torrents = <<>> THEN NoLine
  ELSE FM_combined(FM_display_title(movie.title, movie.year),
                   FM_all_torrents(movie, tpb_torrents, yts_search_torrents),
                   movie.medium_cover_image, movie.rating, movie.genres)

\* aggregate_movie, given what search_tpb and search_yts returned
FM_aggregate_movie(movie, tpb_torrents, yts_search_torrents) ==
  With(FM_all_torrents(movie, tpb_torrents, yts_search_torrents), LAMBDA all_torrents :
    IF movie.title = <<>> \/ all_torrents = <<>> THEN NoLine
    ELSE FM_combined(FM_display_title(movie.title, movie.year), all_torrents,
                     movie.medium_cover_image, movie.rating, movie.genres))

\* one aggregate_movie task: the two searches, then the line
FM_aggregate_task(cache, movie, tpb_attempts, yts_answers) ==
  IF movie.title = <<>>
  THEN [result |-> NoLine, cache |-> cache, tpb_net |-> {}, net |-> {}]
  ELSE With(movie.title \o <<" ">> \o movie.year, LAMBDA search_query :
         With(FM_search_tpb(cache, search_query, tpb_attempts), LAMBDA tpb :
           With(FM_search_yts(tpb.cache, search_query, yts_answers), LAMBDA ys :
             [result |-> FM_aggregate_movie(movie, tpb.torrents, ys.torrents),
              cache |-> ys.cache, tpb_net |-> tpb.net, net |-> tpb.net \cup ys.net])))

\* fetch_tpb_fallback_catalog: [] without a response; with one, the try block reaches
\* re.compile, the module never imports re (its only import is local to
\* fetch_multi_source_catalog), and the NameError is answered by except Exception: return []
FM_fetch_tpb_fallback_catalog(attempts) ==
  IF FM_fetch_url(attempts).kind = "none" THEN <<>> ELSE <<>>

\* extract_year_from_combined: the first (dddd) of the title field, 0 without one
FM_extract_year_from_combined(entry) ==
  LET parts == Split(entry, "|")
      title_part == parts[2]
      at == {i \in 1..(Len(title_part) - 5) :
               /\ title_part[i] = "(" /\ title_part[i + 5] = ")"
               /\ \A k \in 1..4 : IsDigit(title_part[i + k])}
  IN IF Len(parts) > 1 /\ at # {}
     THEN StrToNat(SubSeq(title_part, Min(at) + 1, Min(at) + 4))
     ELSE 0

\* results.sort(key=extract_year_from_combined, reverse=True)
FM_sort_results(results) == StableSortDescBy(results, FM_extract_year_from_combined)

\* ------------------------------------------------------------------------
\* Regular expressions of the re module, as sequences of items matched with backtracking
\* ------------------------------------------------------------------------
\* str.upper() on one character
UpperChar(c) ==
  IF \E i \in 1..26 : LowerChars[i] = c
  THEN UpperChars[CHOOSE i \in 1..26 : LowerChars[i] = c]
  ELSE c

Max(S) == CHOOSE x \in S : \A y \in S : y <= x

\* a character class repeated from lo to hi times (hi = -1: no limit), greedy unless lazy;
\* neg is the class of the characters outside cls
ReItem(cls, neg, lo, hi, lazy) ==
  [kind |-> "cls", cls |-> cls, neg |-> neg, lo |-> lo, hi |-> hi, lazy |-> lazy]

\* [cls]
ReOne(cls) == ReItem(cls, FALSE, 1, 1, FALSE)

\* [cls]+
RePlus(cls) == ReItem(cls, FALSE, 1, -1, FALSE)

\* [cls]*
ReStar(cls) == ReItem(cls, FALSE, 0, -1, FALSE)

\* [cls]?
ReOpt(cls) == ReItem(cls, FALSE, 0, 1, FALSE)

\* .*?
ReLazyAny == ReItem({}, TRUE, 0, -1, TRUE)

\* $
ReEnd == [kind |-> "end", cls |-> {}, neg |-> FALSE, lo |-> 0, hi |-> 0, lazy |-> FALSE]

\* \b
ReWordB == [kind |-> "wordb", cls |-> {}, neg |-> FALSE, lo |-> 0, hi |-> 0, lazy |-> FALSE]

\* a literal text
ReLit(w) == [j \in 1..Len(w) |-> ReOne({w[j]})]

\* a literal text under re.IGNORECASE
ReLitI(w) == [j \in 1..Len(w) |-> ReOne({LowerChar(w[j]), UpperChar(w[j])})]

\* \s and \d
ReSpace == {" "}

ReDigit == Range(DigitChars)

ReInClass(c, it) == (c \in it.cls) # it.neg

\* the longest run of characters of the item's class at position i, within the item's limit
ReRun(s, i, it) ==
  LET stop == {j \in i..Len(s) : ~ReInClass(s[j], it)}
      free == IF stop = {} THEN Len(s) + 1 - i ELSE Min(stop) - i
  IN IF it.hi >= 0 /\ it.hi < free THEN it.hi ELSE free

\* \b at position i: exactly one of the characters before and at i is a word character
ReAtWordB(s, i) ==
  (i > 1 /\ IsWord(s[i - 1])) # (i <= Len(s) /\ IsWord(s[i]))

RECURSIVE ReMatch(_, _, _, _)
\* the match of the items k.. of pat at position i of s: the positions where the items
\* start, then the position after the match; <<>> when there is no match
ReMatch(s, i, pat, k) ==
  IF k > Len(pat) THEN <<i>>
  ELSE IF pat[k].kind = "end"
  THEN IF i = Len(s) + 1 /\ ReMatch(s, i, pat, k + 1) # <<>>
       THEN <<i>> \o ReMatch(s, i, pat, k + 1) ELSE <<>>
  ELSE IF pat[k].kind = "wordb"
  THEN IF ReAtWordB(s, i) /\ ReMatch(s, i, pat, k + 1) # <<>>
       THEN <<i>> \o ReMatch(s, i, pat, k + 1) ELSE <<>>
  ELSE LET ok == {n \in pat[k].lo..ReRun(s, i, pat[k]) : ReMatch(s, i + n, pat, k + 1) # <<>>}
       IN IF ok = {} THEN <<>>
          ELSE <<i>> \o ReMatch(s, i + (IF pat[k].lazy THEN Min(ok) ELSE Max(ok)), pat, k + 1)

\* the alternatives of pats, in order, that match at position i
ReAlts(s, i, pats) == {p \in 1..Len(pats) : ReMatch(s, i, pats[p], 1) # <<>>}

\* re.search of the alternation of pats: the positions of the leftmost match, <<>> without
ReSearch(s, pats) ==
  LET starts == {i \in 1..(Len(s) + 1) : ReAlts(s, i, pats) # {}}
  IN IF starts = {} THEN <<>>
     ELSE ReMatch(s, Min(starts), pats[Min(ReAlts(s, Min(starts), pats))], 1)

RECURSIVE ReSubFrom(_, _, _, _)
\* re.sub of the alternation of pats by rep, from position i on; no pattern in use matches
\* the empty text
ReSubFrom(s, pats, rep, i) ==
  IF i > Len(s) THEN <<>>
  ELSE IF ReAlts(s, i, pats) = {} THEN <<s[i]>> \o ReSubFrom(s, pats, rep, i + 1)
  ELSE LET m == ReMatch(s, i, pats[Min(ReAlts(s, i, pats))], 1)
       IN rep \o ReSubFrom(s, pats, rep, m[Len(m)])

ReSub(s, pats, rep) == ReSubFrom(s, pats, rep, 1)

\* ------------------------------------------------------------------------
\* scripts/python/fetch_multi_source_catalog.py: titles
\* ------------------------------------------------------------------------
IsAlpha(c) == c \in Range(UpperChars) \cup Range(LowerChars)

\* str.title()
StrTitle(s) ==
  [i \in 1..Len(s) |->
     IF ~IsAlpha(s[i]) THEN s[i]
     ELSE IF i > 1 /\ IsAlpha(s[i - 1]) THEN LowerChar(s[i]) ELSE UpperChar(s[i])]

\* s[0].upper() + s[1:]
Capitalize(s) == IF s = <<>> THEN s ELSE <<UpperChar(s[1])>> \o Tail(s)

\* str.replace('.', ' ').replace('_', ' ')
DotsToSpaces(s) == [i \in 1..Len(s) |-> IF s[i] \in {".", "_"} THEN " " ELSE s[i]]

\* (19|20)\d{2}
ReCentury == << ReLit(<<"1","9">>) \o <<ReOne(ReDigit), ReOne(ReDigit)>>,
                ReLit(<<"2","0">>) \o <<ReOne(ReDigit), ReOne(ReDigit)>> >>

\* the alternation of normalize_movie_title's quality markers and release words
FE_quality_markers ==
  << <<"1","0","8","0","p">>, <<"7","2","0","p">>, <<"4","8","0","p">>, <<"2","1","6","0","p">>,
     <<"4","K">>, <<"H","D","R","i","p">>, <<"B","R","R","i","p">>, <<"B","l","u","R","a","y">>,
     <<"W","E","B","-","D","L">>, <<"W","E","B","R","i","p">>, <<"H","D","T","V">>,
     <<"x","2","6","4">>, <<"x","2","6","5">>, <<"H","E","V","C">>, <<"A","A","C">>,
     <<"D","T","S">> >>

\* the class [A-Za-z0-9]
ReAlnum == Range(UpperChars) \cup Range(LowerChars) \cup Range(DigitChars)

\* the colon and quote class that normalize_movie_title removes; of its characters the
\* texts here have the colon and the apostrophe
FE_quote_chars == {":", "'"}

FE_normalize_movie_title(name) ==
  LET year_match == ReSearch(name, [p \in 1..2 |-> <<ReOpt({"("})>> \o ReCentury[p] \o <<ReOpt({")"})>>])
      year == IF year_match = <<>> THEN <<>> ELSE SubSeq(name, year_match[2], year_match[2] + 3)
      n1 == ReSub(name, [t \in 1..Len(FE_quality_markers) |->
                           <<RePlus({".", " "})>> \o ReLitI(FE_quality_markers[t])], <<>>)
      n2 == ReSub(n1, << <<ReOne({"-"}), RePlus(ReAlnum), ReEnd>> >>, <<>>)
      n3 == ReSub(n2, << <<ReOne({"["}), ReLazyAny, ReOne({"]"})>> >>, <<>>)
      n4 == ReSub(n3, [p \in 1..2 |-> <<ReOne({"("})>> \o ReCentury[p] \o <<ReOne({")"})>>], <<>>)
      n5 == ReSub(n4, << <<ReOne({"("}), ReItem({")"}, TRUE, 0, -1, FALSE), ReOne({")"})>> >>, <<>>)
      n6 == SelectSeq(n5, LAMBDA c : c \notin FE_quote_chars)
      normalized == StrLower(Strip(CollapseSpaces(DotsToSpaces(n6))))
  IN IF year # <<>> THEN normalized \o <<" ">> \o year ELSE normalized

\* the residual_patterns of clean_display_title, each without its closing (?:\s|$)
FE_residual_patterns ==
  << <<RePlus(ReSpace)>> \o ReLit(<<"5">>) \o <<ReStar(ReSpace)>> \o ReLit(<<"1">>),
     <<RePlus(ReSpace)>> \o ReLit(<<"7">>) \o <<ReStar(ReSpace)>> \o ReLit(<<"1">>),
     <<RePlus(ReSpace)>> \o ReLit(<<"2">>) \o <<ReStar(ReSpace)>> \o ReLit(<<"0">>),
     <<RePlus(ReSpace)>> \o ReLitI(<<"H">>) \o <<ReStar(ReSpace)>> \o ReLit(<<"2","6">>)
       \o <<ReOpt(ReDigit)>>,
     <<RePlus(ReSpace)>> \o ReLitI(<<"D","d">>) \o <<ReOpt({"5"}), ReStar(ReSpace), ReOpt({"1"})>>,
     <<RePlus(ReSpace)>> \o ReLitI(<<"D","d","p">>)
       \o <<ReOpt(ReDigit), ReStar(ReSpace), ReOpt({"1"})>>,
     <<RePlus(ReSpace)>> \o ReLitI(<<"N","f">>),
     <<RePlus(ReSpace)>> \o ReLitI(<<"M","a">>),
     <<RePlus(ReSpace)>> \o ReLitI(<<"H","c">>),
     <<RePlus(ReSpace), RePlus(ReDigit)>> \o ReLitI(<<"B","i","t">>) \o <<ReOpt({"s", "S"})>>,
     <<RePlus(ReSpace)>> \o ReLitI(<<"C","h","i","n","e","s","e">>),
     <<RePlus(ReSpace)>> \o ReLitI(<<"K","o","r","e","a","n">>),
     <<RePlus(ReSpace)>> \o ReLitI(<<"E","n">>) >>

RECURSIVE FE_remove_residual(_, _)
\* for pattern in residual_patterns: title = re.sub(pattern, ' ', title, flags=re.IGNORECASE)
FE_remove_residual(title, k) ==
  IF title = <<>> \/ k > Len(FE_residual_patterns) THEN title
  ELSE FE_remove_residual(
         ReSub(title, << FE_residual_patterns[k] \o <<ReOne(ReSpace)>>,
                         FE_residual_patterns[k] \o <<ReEnd>> >>, <<" ">>), k + 1)

\* re.sub(r'[\s\-:]+$', '', title)
FE_strip_trailing(title) == ReSub(title, << <<RePlus({" ", "-", ":"}), ReEnd>> >>, <<>>)

\* the small words clean_display_title puts back in lower case after str.title()
FE_small_words ==
  << <<"O","f">>, <<"T","h","e">>, <<"A">>, <<"A","n">>, <<"A","n","d">>, <<"I","n">>,
     <<"O","n">>, <<"T","o">>, <<"F","o","r">>, <<"A","t">> >>

RECURSIVE FE_fix_small_words(_, _)
FE_fix_small_words(title, k) ==
  IF title = <<>> \/ k > Len(FE_small_words) THEN title
  ELSE FE_fix_small_words(
         ReplaceWord(title, FE_small_words[k],
                     IF k = 2 THEN FE_small_words[k] ELSE StrLower(FE_small_words[k])), k + 1)

\* the words of tech_markers, each between \b and \b under re.IGNORECASE
FE_tech_marker_words ==
  << <<"1","0","8","0","p">>, <<"7","2","0","p">>, <<"2","1","6","0","p">>, <<"4","8","0","p">>,
     <<"4","K">>, <<"H","D","R","i","p">>, <<"W","E","B","R","i","p">>,
     <<"W","E","B","-","D","L">>, <<"B","l","u","R","a","y">>, <<"B","R","R","i","p">>,
     <<"H","D","T","V">>, <<"C","A","M">>, <<"T","S">>, <<"T","C">>, <<"x","2","6","4">>,
     <<"x","2","6","5">>, <<"H","E","V","C">> >>

FE_tech_markers ==
  [k \in 1..Len(FE_tech_marker_words) |-> <<ReWordB>> \o ReLitI(FE_tech_marker_words[k]) \o <<ReWordB>>]
  \o << <<ReWordB>> \o ReLitI(<<"H">>) \o <<ReStar(ReSpace)>> \o ReLit(<<"2","6","4">>) \o <<ReWordB>>,
        <<ReWordB>> \o ReLitI(<<"H">>) \o <<ReStar(ReSpace)>> \o ReLit(<<"2","6","5">>) \o <<ReWordB>> >>

RECURSIVE FE_title_before_marker(_, _)
\* clean_display_title without a year: the text before the first tech marker found more
\* than five characters in, or the whole name
FE_title_before_marker(name, k) ==
  IF k > Len(FE_tech_markers)
  THEN Capitalize(StrTitle(Strip(CollapseSpaces(name))))
  ELSE LET match == ReSearch(name, <<FE_tech_markers[k]>>)
           title == FE_strip_trailing(Strip(SubSeq(name, 1, match[1] - 1)))
       IN IF match # <<>> /\ match[1] - 1 > 5 /\ title # <<>>
          THEN Capitalize(StrTitle(title))
          ELSE FE_title_before_marker(name, k + 1)

\* [\s\(]+((?:19[2-9]\d|20[0-2]\d))(?:[\s\)\]]|$)
FE_year_patterns ==
  LET y19 == <<RePlus({" ", "("})>> \o ReLit(<<"1","9">>)
               \o <<ReOne({"2","3","4","5","6","7","8","9"}), ReOne(ReDigit)>>
      y20 == <<RePlus({" ", "("})>> \o ReLit(<<"2","0">>)
               \o <<ReOne({"0","1","2"}), ReOne(ReDigit)>>
  IN << y19 \o <<ReOne({" ", ")", "]"})>>, y19 \o <<ReEnd>>,
        y20 \o <<ReOne({" ", ")", "]"})>>, y20 \o <<ReEnd>> >>

FE_clean_display_title(original) ==
  LET name == DotsToSpaces(ReSub(original, << <<ReStar(ReSpace), ReOne({"["}), ReLazyAny,
                                               ReOne({"]"})>> >>, <<>>))
      year_match == ReSearch(name, FE_year_patterns)
      year == SubSeq(name, year_match[2], year_match[2] + 3)
      title == FE_strip_trailing(Strip(CollapseSpaces(
                 FE_remove_residual(Strip(SubSeq(name, 1, year_match[1] - 1)), 1))))
  IN IF year_match # <<>> /\ title # <<>>
     THEN Capitalize(FE_fix_small_words(StrTitle(title), 1)) \o <<" ", "(">> \o year \o <<")">>
     ELSE FE_title_before_marker(name, 1)

\* ------------------------------------------------------------------------
\* scripts/python/fetch_multi_source_catalog.py: fetch_enriched_catalog
\* ------------------------------------------------------------------------
\* fetch_tpb_top100_movies reads data[:100]
FE_TOP100 == 100

\* tv_pattern of fetch_tpb_top100_movies, under re.IGNORECASE
FE_tv_patterns ==
  << ReLitI(<<"S">>) \o <<ReItem(ReDigit, FALSE, 1, 2, FALSE)>> \o ReLitI(<<"E">>)
       \o <<ReItem(ReDigit, FALSE, 1, 2, FALSE)>>,
     ReLitI(<<"S","e","a","s","o","n">>) \o <<ReStar(ReSpace), RePlus(ReDigit)>>,
     ReLitI(<<"C","o","m","p","l","e","t","e">>) \o <<ReStar(ReSpace)>>
       \o ReLitI(<<"S","e","r","i","e","s">>),
     <<RePlus(ReDigit)>> \o ReLitI(<<"x">>) \o <<RePlus(ReDigit)>> >>

\* re.sub(r'\s*\(\d{4}\)\s*$', '', cleaned).strip()
FE_search_title(cleaned) ==
  Strip(ReSub(cleaned, << <<ReStar(ReSpace), ReOne({"("}), ReOne(ReDigit), ReOne(ReDigit),
                            ReOne(ReDigit), ReOne(ReDigit), ReOne({")"}), ReStar(ReSpace),
                            ReEnd>> >>, <<>>))

\* the record fetch_tpb_top100_movies builds from one item
FE_top100_movie(item) ==
  LET year_match == ReSearch(item.name, ReCentury)
  IN [name |-> item.name,
      search_title |-> FE_search_title(FE_clean_display_title(item.name)),
      year |-> IF year_match = <<>> THEN <<>>
               ELSE SubSeq(item.name, year_match[1], year_match[1] + 3),
      info_hash |-> StrLower(item.info_hash),
      seeders |-> StrToNat(item.seeders), size |-> StrToNat(item.size)]

\* fetch_tpb_top100_movies: [] without a response, and [] from the except clause when the
\* body is no JSON list or int() fails on an item that passed the filters
FE_fetch_tpb_top100_movies(attempts) ==
  LET response == FM_fetch_url(attempts)
      data == response.data
      top == SubSeq(data, 1, IF Len(data) < FE_TOP100 THEN Len(data) ELSE FE_TOP100)
  IN IF response.kind # "tpb" THEN <<>>
     ELSE With(SelectSeq(top, LAMBDA item :
                 /\ item.info_hash # <<>> /\ item.info_hash # ZeroHash
                 /\ ReSearch(item.name, FE_tv_patterns) = <<>>), LAMBDA kept :
       IF \E i \in 1..Len(kept) : ~IsInt(kept[i].seeders) \/ ~IsInt(kept[i].size) THEN <<>>
       ELSE [i \in 1..Len(kept) |-> FE_top100_movie(kept[i])])

\* search_tpb of this file: one curl call, no retry; the rest as in bin/scripts
FE_search_tpb(cache, query, attempt) ==
  IF FM_has_cached(cache.tpb, query)
  THEN [torrents |-> FM_get_cached(cache.tpb, query), cache |-> cache, net |-> {"cache"}]
  ELSE With(IF attempt.kind = "tpb" THEN FM_parse_tpb(attempt.data)
            ELSE [torrents |-> <<>>, store |-> FALSE], LAMBDA r :
         [torrents |-> r.torrents,
          cache |-> IF r.store THEN [cache EXCEPT !.tpb = FM_set_cache(@, query, r.torrents)]
                    ELSE cache,
          net |-> IF attempt.kind # "none" THEN {"answered"} ELSE {"failed"}])

RECURSIVE FE_extend(_, _)
\* for t in more: if t.get('hash') and t['hash'] not in [x['hash'] for x in torrents]:
\* torrents.append(t)
FE_extend(torrents, more) ==
  IF more = <<>> THEN torrents
  ELSE IF Head(more).hash # <<>>
          /\ Head(more).hash \notin {torrents[i].hash : i \in 1..Len(torrents)}
  THEN FE_extend(Append(torrents, Head(more)), Tail(more))
  ELSE FE_extend(torrents, Tail(more))

\* a value of all_movies; a key the dict lacks reads as the default of the .get that reads it
FE_entry(name, torrents, poster, rating, genres) ==
  [name |-> name, torrents |-> torrents, poster |-> poster, rating |-> rating,
   genres |-> genres]

\* enrich_movie_with_sources, given what search_tpb and search_yts returned
FE_enrich_movie_with_sources(movie, tpb_results, yts_results) ==
  LET own == IF movie.info_hash # <<>>
             THEN << [source |-> TPB, hash |-> movie.info_hash,
                      quality |-> FM_extract_quality(movie.name),
                      size |-> FM_size_str(movie.size \div (1024 * 1024)),
                      seeds |-> movie.seeders, magnet |-> Magnet(movie.info_hash)] >>
             ELSE <<>>
  IN FE_entry(movie.name, FE_extend(FE_extend(own, tpb_results), yts_results), NA, 0, <<>>)

\* one enrich_movie_with_sources task: the two searches, then the entry
FE_enrich_task(cache, movie, tpb_attempt, yts_answers) ==
  With(Strip(movie.search_title \o <<" ">> \o movie.year), LAMBDA search_query :
    With(FE_search_tpb(cache, search_query, tpb_attempt), LAMBDA tpb :
      With(FM_search_yts(tpb.cache, search_query, yts_answers), LAMBDA ys :
        [enriched |-> FE_enrich_movie_with_sources(movie, tpb.torrents, ys.torrents),
         cache |-> ys.cache, net |-> tpb.net \cup ys.net])))

\* index of the key in all_movies, 0 when the dict has no such key
FE_index(all_movies, key) ==
  IF \E n \in 1..Len(all_movies) : all_movies[n].key = key
  THEN CHOOSE n \in 1..Len(all_movies) : all_movies[n].key = key
  ELSE 0

\* the torrents of more whose hash is not among those the entry had before the merge
FE_new_torrents(existing, more) ==
  SelectSeq(more, LAMBDA t : t.hash \notin {existing[i].hash : i \in 1..Len(existing)})

\* phase 1, one completed future: a new key is inserted, a known key gets the new torrents
FE_merge_enriched(all_movies, enriched) ==
  IF enriched.torrents = <<>> THEN all_movies
  ELSE With(FE_normalize_movie_title(enriched.name), LAMBDA key :
         With(FE_index(all_movies, key), LAMBDA n :
           IF n = 0 THEN Append(all_movies, [key |-> key, movie |-> enriched])
           ELSE [all_movies EXCEPT ![n].movie.torrents =
                   @ \o FE_new_torrents(@, enriched.torrents)]))

\* phase 2, one movie of a completed page: as phase 1, and the poster, rating and genres
\* of the page's movie replace the stored ones when they are set
FE_merge_page_movie(all_movies, movie) ==
  With(FE_normalize_movie_title(movie.name), LAMBDA key :
    With(FE_index(all_movies, key), LAMBDA n :
      IF n = 0 THEN Append(all_movies, [key |-> key, movie |-> movie])
      ELSE With(all_movies[n].movie, LAMBDA existing :
        [all_movies EXCEPT ![n].movie =
           FE_entry(existing.name,
                    existing.torrents \o FE_new_torrents(existing.torrents, movie.torrents),
                    IF movie.poster # <<>> /\ movie.poster # NA
                    THEN movie.poster ELSE existing.poster,
                    IF movie.rating # 0 THEN movie.rating ELSE existing.rating,
                    IF movie.genres # <<>> THEN movie.genres ELSE existing.genres)])))

RECURSIVE FE_merge_page(_, _)
FE_merge_page(all_movies, page_movies) ==
  IF page_movies = <<>> THEN all_movies
  ELSE With(FE_merge_page_movie(all_movies, Head(page_movies)), LAMBDA merged :
         FE_merge_page(merged, Tail(page_movies)))

\* one movie of fetch_and_enrich_yts_page: its YTS torrents, then those search_tpb found
FE_page_movie(movie, tpb_results) ==
  FE_entry(FM_display_title(movie.title, movie.year),
           FE_extend(FM_parse_yts_torrents(movie), tpb_results),
           movie.medium_cover_image, movie.rating, movie.genres)

RECURSIVE FE_page_movies(_, _, _, _)
\* the loop of fetch_and_enrich_yts_page over the movies k.. of the page; tpb_attempts[k] is
\* what curl gives the search for movie k
FE_page_movies(cache, movies_, tpb_attempts, k) ==
  IF k > Len(movies_) THEN [enriched |-> <<>>, cache |-> cache, net |-> {}]
  ELSE With(FE_search_tpb(cache, movies_[k].title \o <<" ">> \o movies_[k].year,
                          tpb_attempts[k]), LAMBDA tpb :
         With(FE_page_movies(tpb.cache, movies_, tpb_attempts, k + 1), LAMBDA rest :
           [enriched |-> <<FE_page_movie(movies_[k], tpb.torrents)>> \o rest.enriched,
            cache |-> rest.cache, net |-> tpb.net \cup rest.net]))

\* one fetch_and_enrich_yts_page task
FE_fetch_and_enrich_yts_page(cache, p, answers, tpb_attempts) ==
  With(FM_fetch_yts_movies(cache, NatToStr(p), answers), LAMBDA list :
    With(FE_page_movies(list.cache, list.movies, tpb_attempts, 1), LAMBDA r :
      [enriched |-> r.enriched, cache |-> r.cache, net |-> list.net \cup r.net]))

\* list.sort with a comparison: Before(a, b) when a's key sorts before b's; elements
\* neither of which sorts before the other keep their old order
StableSortBy(xs, Before(_, _)) ==
  LET n == Len(xs)
      pos == [i \in 1..n |->
                Cardinality({j \in 1..n : Before(xs[j], xs[i])})
                  + Cardinality({j \in 1..(i - 1) :
                                   ~Before(xs[j], xs[i]) /\ ~Before(xs[i], xs[j])}) + 1]
  IN [p \in 1..n |-> xs[CHOOSE i \in 1..n : pos[i] = p]]

\* phase 3, one entry: torrents.sort(key=lambda x: int(x.get('seeds', 0)), reverse=True)
\* and the COMBINED line
FE_combined(movie) ==
  With(StableSortDescBy(movie.torrents, LAMBDA t : t.seeds), LAMBDA torrents :
    FM_combined(FE_clean_display_title(movie.name), torrents,
                movie.poster, movie.rating, movie.genres))

RECURSIVE FE_convert(_)
\* phase 3: the lines of the entries that have torrents, in the order of all_movies
FE_convert(all_movies) ==
  IF all_movies = <<>> THEN <<>>
  ELSE IF Head(all_movies).movie.torrents = <<>> THEN FE_convert(Tail(all_movies))
  ELSE <<FE_combined(Head(all_movies).movie)>> \o FE_convert(Tail(all_movies))

\* extract_max_seeds: the largest number of the seeds field, 0 when it has none
FE_extract_max_seeds(entry) ==
  LET parts == Split(entry, "|")
      seeds == {s \in Range(Split(parts[5], "^")) : IsInt(s)}
  IN IF Len(parts) > 4 /\ seeds # {} THEN Max({StrToNat(s) : s \in seeds}) ELSE 0

\* phase 4: results.sort(key=(year, max seeds), reverse=True)
FE_sort_results(results) ==
  StableSortBy(results, LAMBDA a, b :
    \/ FM_extract_year_from_combined(a) > FM_extract_year_from_combined(b)
    \/ /\ FM_extract_year_from_combined(a) = FM_extract_year_from_combined(b)
       /\ FE_extract_max_seeds(a) > FE_extract_max_seeds(b))

\* ------------------------------------------------------------------------
\* The catalog calls: what the sources may answer
\* ------------------------------------------------------------------------
\* pages fetch_enriched_catalog asks YTS for: its yts_pages argument, with start_page = 1
YtsPages == 2

StrUpper(s) == [i \in 1..Len(s) |-> UpperChar(s[i])]

YtsTorrent(hash, quality, size, seeds) ==
  [hash |-> hash, quality |-> quality, size |-> size, seeds |-> seeds]

\* two movies of the YTS listing; the first has more seeds on its 720p than on its 1080p
MovieRecall ==
  [title |-> <<"T","o","t","a","l"," ","R","e","c","a","l","l">>, year |-> <<"1","9","9","0">>, medium_cover_image |-> <<"p","1">>, rating |-> 7,
   genres |-> <<<<"A","c","t","i","o","n">>, <<"S","c","i","-","F","i">>>>,
   torrents |-> << YtsTorrent(H1Upper, <<"7","2","0","p">>, <<"1","G","B">>, 90),
                   YtsTorrent(StrUpper(H4), <<"1","0","8","0","p">>, <<"2","G","B">>, 50) >>]

MovieHeat ==
  [title |-> <<"H","e","a","t">>, year |-> <<"1","9","9","5">>, medium_cover_image |-> NA, rating |-> 0,
   genres |-> <<>>,
   torrents |-> << YtsTorrent(StrUpper(H2), <<"1","0","8","0","p">>, <<"2","G","B">>, 10) >>]

\* what a YTS search finds: a 2160p torrent, and the 720p of the listing again
MovieRecallFound ==
  [MovieRecall EXCEPT !.torrents = << YtsTorrent(StrUpper(H3), <<"2","1","6","0","p">>, <<"5","G","B">>, 70),
                                      YtsTorrent(H1Upper, <<"7","2","0","p">>, <<"1","G","B">>, 90) >>]

\* bodies
Garbage == [kind |-> "garbage", data |-> <<>>]

YtsError == [kind |-> "yts_error", data |-> <<>>]

YtsOk(ms) == [kind |-> "yts_ok", data |-> ms]

TpbBody(items) == [kind |-> "tpb", data |-> items]

TpbItem(info_hash, name, seeders, size) ==
  [info_hash |-> info_hash, name |-> name, seeders |-> seeders, size |-> size]

\* the attempts on one URL: never answered, answered on the retry, answered at once
Down == <<NoResponse, NoResponse>>

Retried(body) == <<NoResponse, body>>

Up(body) == <<body, body>>

\* what the three YTS domains answer to a listing request
YtsListAnswers ==
  { <<Down, Down, Down>>,
    <<Down, Retried(YtsOk(<<MovieRecall, MovieHeat>>)), Down>>,
    <<Up(Garbage), Up(YtsError), Up(YtsOk(<<MovieHeat>>))>>,
    <<Up(YtsOk(<<>>)), Down, Down>> }

\* what they answer to a search request
YtsSearchAnswers ==
  { <<Down, Down, Down>>,
    <<Up(YtsOk(<<MovieRecallFound>>)), Down, Down>> }

\* TPB search results: the 720p of YTS under its lower-case hash, a 4K release with an
\* upper-case hash, and the all-zero hash
TpbHits ==
  TpbBody(<< TpbItem(H1, <<"T","o","t","a","l",".","R","e","c","a","l","l",".","1","9","9","0",".","7","2","0","p",".","B","l","u","R","a","y">>, <<"3">>, <<"7","3","4","0","0","3","2","0","0">>),
             TpbItem(StrUpper(<<"a","a">> \o Repeat("5", 38)), <<"T","o","t","a","l",".","R","e","c","a","l","l",".","1","9","9","0",".","2","1","6","0","p",".","U","H","D",".","B","l","u","R","a","y",".","x","2","6","5","-","G","R","P">>, <<"5">>, <<"1","6","1","0","6","1","2","7","3","6">>),
             TpbItem(ZeroHash, <<"x">>, <<"0">>, <<"0">>) >>)

\* the placeholder apibay answers a search without results with
TpbNoResults == TpbBody(<< TpbItem(ZeroHash, NoResultsName, <<"0">>, <<"0">>) >>)

\* results with a seeders field that is no number
TpbBadSeeders ==
  TpbBody(<< TpbItem(StrUpper(<<"b","b">> \o Repeat("6", 38)), <<"T","o","t","a","l",".","R","e","c","a","l","l",".","1","9","9","0",".","1","0","8","0","p",".","W","E","B","R","i","p">>, <<"7">>, <<"1","3","4","2","1","7","7","2","8","0">>),
             TpbItem(StrUpper(<<"c","c">> \o Repeat("7", 38)), <<"T","o","t","a","l",".","R","e","c","a","l","l",".","1","9","9","0",".","4","8","0","p">>, <<"n","/","a">>, <<"1">>) >>)

\* the attempts of fetch_url on a TPB search
TpbSearchAttempts == {Down, Retried(TpbHits), Up(TpbNoResults), Up(TpbBadSeeders)}

\* the one curl call of the python catalog's search_tpb
TpbCurlAttempts == {NoResponse, TpbHits}

\* the TPB top 100: a movie, the all-zero hash, an episode
Top100 ==
  TpbBody(<< TpbItem(StrUpper(<<"d","d">> \o Repeat("8", 38)), <<"T","o","t","a","l"," ","R","e","c","a","l","l"," ","(","1","9","9","0",")"," ","1","0","8","0","p"," ","B","l","u","R","a","y">>, <<"4","0">>, <<"1","6","1","0","6","1","2","7","3","6">>),
             TpbItem(ZeroHash, <<"x">>, <<"0">>, <<"0">>),
             TpbItem(StrUpper(<<"e","e">> \o Repeat("9", 38)), <<"S","o","m","e",".","S","h","o","w",".","S","0","1","E","0","2",".","7","2","0","p">>, <<"6","0">>, <<"7","3","4","0","0","3","2","0","0">>) >>)

Top100Attempts == {Down, Retried(Top100)}

\* CACHE_DIR before the call: empty, or holding the first page of the YTS listing
ColdCache == [yts_list |-> {}, tpb |-> {}, yts_search |-> {}, eztv_shows |-> {}]

WarmCache == [ColdCache EXCEPT !.yts_list = {[key |-> <<"1">>, data |-> <<MovieHeat>>]}]

\* ------------------------------------------------------------------------
\* fetch_multi_source_catalog (bin/scripts), movies without a query
\* ------------------------------------------------------------------------
\* what the catalog call returned, or the exception it let escape
Returned(value) == [kind |-> "list", value |-> value]

Raised(exception) == [kind |-> "exception", value |-> exception]

NoReturn == [kind |-> "running", value |-> <<>>]

\* the call up to the test of movies: fetch_yts_movies, then the tasks are submitted
cat_fetch_list(answers) ==
  /\ prog = "catalog" /\ cat_variant = "bin" /\ cat_pc = "start"
  /\ \E r \in {FM_fetch_yts_movies(cat_cache, <<"1">>, answers)} :
        /\ cat_cache' = r.cache
        /\ cat_movies' = r.movies
        /\ cat_pending' = 1..Len(r.movies)
        /\ cat_net' = cat_net \cup r.net
        /\ cat_pc' = IF r.movies = <<>> THEN "fallback" ELSE "aggregate"
  /\ UNCHANGED <<cat_variant, cat_parallel, cat_all_movies, cat_results, cat_ret, cat_log>>
  /\ cat_frame

\* if not movies: return fetch_tpb_fallback_catalog(limit, category=tpb_cat)
cat_fallback(attempts) ==
  /\ prog = "catalog" /\ cat_variant = "bin" /\ cat_pc = "fallback"
  /\ cat_ret' = Returned(FM_fetch_tpb_fallback_catalog(attempts))
  /\ cat_net' = cat_net \cup NetOf(<<attempts>>)
  /\ cat_pc' = "returned"
  /\ UNCHANGED <<cat_variant, cat_parallel, cat_cache, cat_movies, cat_pending,
                 cat_all_movies, cat_results, cat_log>>
  /\ cat_frame

\* one aggregate_movie(m) and the append of its result: the futures of the executor
\* complete in any order, the sequential loop takes the movies in order
cat_aggregate(i, tpb_attempts, yts_answers) ==
  /\ prog = "catalog" /\ cat_variant = "bin" /\ cat_pc = "aggregate"
  /\ i \in cat_pending
  /\ cat_parallel \/ i = Min(cat_pending)
  /\ \E r \in {FM_aggregate_task(cat_cache, cat_movies[i], tpb_attempts, yts_answers)} :
        /\ cat_cache' = r.cache
        /\ cat_results' = IF r.result # NoLine THEN Append(cat_results, r.result)
                          ELSE cat_results
        /\ cat_log' = Append(cat_log, [task |-> i, movie |-> cat_movies[i],
                                       tpb_net |-> r.tpb_net, result |-> r.result])
        /\ cat_net' = cat_net \cup r.net
  /\ cat_pending' = cat_pending \ {i}
  /\ UNCHANGED <<cat_variant, cat_parallel, cat_pc, cat_movies, cat_all_movies, cat_ret>>
  /\ cat_frame

\* results.sort(key=extract_year_from_combined, reverse=True); return results
cat_return ==
  /\ prog = "catalog" /\ cat_variant = "bin" /\ cat_pc = "aggregate"
  /\ cat_pending = {}
  /\ cat_ret' = Returned(FM_sort_results(cat_results))
  /\ cat_pc' = "returned"
  /\ UNCHANGED <<cat_variant, cat_parallel, cat_cache, cat_movies, cat_pending,
                 cat_all_movies, cat_results, cat_log, cat_net>>
  /\ cat_frame

\* ------------------------------------------------------------------------
\* fetch_enriched_catalog (scripts/python), movies without a query, start_page = 1,
\* skip_tpb = False
\* ------------------------------------------------------------------------
\* phase 1: fetch_tpb_top100_movies, then one enrich_movie_with_sources is submitted for
\* each of its movies
cat_top100(attempts) ==
  /\ prog = "catalog" /\ cat_variant = "python" /\ cat_pc = "start"
  /\ \E tpb_top100 \in {FE_fetch_tpb_top100_movies(attempts)} :
        /\ cat_movies' = tpb_top100
        /\ cat_pending' = 1..Len(tpb_top100)
  /\ cat_net' = cat_net \cup NetOf(<<attempts>>)
  /\ cat_pc' = "phase1"
  /\ UNCHANGED <<cat_variant, cat_parallel, cat_cache, cat_all_movies, cat_results,
                 cat_ret, cat_log>>
  /\ cat_frame

\* phase 1: one future completes and as_completed hands it to the loop body
cat_enrich(i, tpb_attempt, yts_answers) ==
  /\ prog = "catalog" /\ cat_variant = "python" /\ cat_pc = "phase1"
  /\ i \in cat_pending
  /\ \E r \in {FE_enrich_task(cat_cache, cat_movies[i], tpb_attempt, yts_answers)} :
        /\ cat_cache' = r.cache
        /\ cat_all_movies' = FE_merge_enriched(cat_all_movies, r.enriched)
        /\ cat_log' = Append(cat_log, [phase |-> 1, task |-> i, enriched |-> r.enriched])
        /\ cat_net' = cat_net \cup r.net
  /\ cat_pending' = cat_pending \ {i}
  /\ UNCHANGED <<cat_variant, cat_parallel, cat_pc, cat_movies, cat_results, cat_ret>>
  /\ cat_frame

\* the first executor is left, the second submits fetch_and_enrich_yts_page for the pages
\* start_page..yts_pages
cat_submit_pages ==
  /\ prog = "catalog" /\ cat_variant = "python" /\ cat_pc = "phase1"
  /\ cat_pending = {}
  /\ cat_pc' = "phase2"
  /\ cat_pending' = 1..YtsPages
  /\ UNCHANGED <<cat_variant, cat_parallel, cat_cache, cat_movies, cat_all_movies,
                 cat_results, cat_ret, cat_log, cat_net>>
  /\ cat_frame

\* phase 2: the future of page p completes and as_completed hands it to the loop body
cat_page(p, answers, tpb_attempts) ==
  /\ prog = "catalog" /\ cat_variant = "python" /\ cat_pc = "phase2"
  /\ p \in cat_pending
  /\ \E r \in {FE_fetch_and_enrich_yts_page(cat_cache, p, answers, tpb_attempts)} :
        /\ cat_cache' = r.cache
        /\ cat_all_movies' = FE_merge_page(cat_all_movies, r.enriched)
        /\ cat_log' = Append(cat_log, [phase |-> 2, task |-> p, enriched |-> r.enriched])
        /\ cat_net' = cat_net \cup r.net
  /\ cat_pending' = cat_pending \ {p}
  /\ UNCHANGED <<cat_variant, cat_parallel, cat_pc, cat_movies, cat_results, cat_ret>>
  /\ cat_frame

\* as_completed(futures, timeout=30) and as_completed(futures, timeout=60): the iterator
\* raises TimeoutError when the time is up with futures still pending.  Both for loops
\* stand outside any try, so the exception leaves fetch_enriched_catalog.  How long a task
\* takes is up to the network: a page task whose mirrors do not answer spends
\* 3 * (8 + 0.5 + 8) seconds in fetch_url before it returns, and the executor runs
\* 10 of them at a time.
cat_timeout ==
  /\ prog = "catalog" /\ cat_variant = "python" /\ cat_pc \in {"phase1", "phase2"}
  /\ cat_pending # {}
  /\ cat_ret' = Raised("TimeoutError")
  /\ cat_pc' = "raised"
  /\ UNCHANGED <<cat_variant, cat_parallel, cat_cache, cat_movies, cat_pending,
                 cat_all_movies, cat_results, cat_log, cat_net>>
  /\ cat_frame

\* phases 3 and 4: the COMBINED lines, sorted, are returned
cat_convert ==
  /\ prog = "catalog" /\ cat_variant = "python" /\ cat_pc = "phase2"
  /\ cat_pending = {}
  /\ \E results \in {FE_convert(cat_all_movies)} :
        /\ cat_results' = results
        /\ cat_ret' = Returned(FE_sort_results(results))
  /\ cat_pc' = "returned"
  /\ UNCHANGED <<cat_variant, cat_parallel, cat_cache, cat_movies, cat_pending,
                 cat_all_movies, cat_log, cat_net>>
  /\ cat_frame

\* the state before the call
CatStart ==
  /\ cat_pc = "start" /\ cat_movies = <<>> /\ cat_pending = {} /\ cat_all_movies = <<>>
  /\ cat_results = <<>> /\ cat_ret = NoReturn /\ cat_log = <<>> /\ cat_net = {}

CatInit ==
  /\ cat_variant \in {"bin", "python"}
  /\ cat_parallel \in BOOLEAN
  /\ cat_variant = "python" => cat_parallel = TRUE
  /\ cat_cache \in {ColdCache, WarmCache}
  /\ CatStart

\* no catalog call in this process
CatIdle == cat_variant = "bin" /\ cat_parallel = TRUE /\ cat_cache = ColdCache /\ CatStart

CatNext ==
  \/ \E answers \in YtsListAnswers : cat_fetch_list(answers)
  \/ \E attempts \in Top100Attempts : cat_fallback(attempts)
  \/ \E i \in cat_pending, tpb_attempts \in TpbSearchAttempts,
        yts_answers \in YtsSearchAnswers : cat_aggregate(i, tpb_attempts, yts_answers)
  \/ cat_return
  \/ \E attempts \in Top100Attempts : cat_top100(attempts)
  \/ \E i \in cat_pending, tpb_attempt \in TpbCurlAttempts,
        yts_answers \in YtsSearchAnswers : cat_enrich(i, tpb_attempt, yts_answers)
  \/ cat_submit_pages
  \/ \E p \in cat_pending, answers \in YtsListAnswers,
        tpb_attempts \in [1..2 -> TpbCurlAttempts] : cat_page(p, answers, tpb_attempts)
  \/ cat_timeout
  \/ cat_convert

\* ------------------------------------------------------------------------
\* tpb_config.py and tpb_client.py: TPBClient
\* ------------------------------------------------------------------------
TPB_DOMAINS == <<"https://apibay.org", "https://pirateproxy.live", "https://piratebay.live">>

TPB_MAX_RETRIES == 3

\* seconds
TPB_RETRY_DELAY_BASE == 1

\* self.working_domain before the first success
None == "None"

\* PRECOMPILED_FILES.get(category, PRECOMPILED_FILES['hd_movies']), for the categories in use
TPB_precompiled_file(category) ==
  CASE category = "hd_tv_shows" -> <<"d","a","t","a","_","t","o","p","1","0","0","_","2","0","8",".","j","s","o","n">>
    [] category = "movies" -> <<"d","a","t","a","_","t","o","p","1","0","0","_","2","0","1",".","j","s","o","n">>
    [] OTHER -> <<"d","a","t","a","_","t","o","p","1","0","0","_","2","0","7",".","j","s","o","n">>

\* urllib.parse.quote on the characters in use: letters and digits stay, a blank becomes %20
RECURSIVE UrlQuote(_)
UrlQuote(s) ==
  IF s = <<>> THEN <<>>
  ELSE (IF Head(s) = " " THEN <<"%","2","0">> ELSE <<Head(s)>>) \o UrlQuote(Tail(s))

\* the domains in the configured order, the working domain left in its place
TPB_domains_configured(working_domain) == TPB_DOMAINS

\* domains = TPB_DOMAINS.copy(), the working domain moved to the front
TPB_domains(working_domain) ==
  IF working_domain \in Range(TPB_DOMAINS)
  THEN <<working_domain>> \o SelectSeq(TPB_DOMAINS, LAMBDA d : d # working_domain)
  ELSE TPB_DOMAINS

DomainIndex(d) == CHOOSE n \in 1..Len(TPB_DOMAINS) : TPB_DOMAINS[n] = d

\* one request of a fetch, for the history: the domain, the number of the attempt on it
\* counted from 0, the kind of answer it met, and the seconds of the time.sleep that
\* followed it, 0 when none did
Request(domain, attempt, met, slept) ==
  [domain |-> domain, attempt |-> attempt, met |-> met, slept |-> slept]

\* a power of two
RECURSIVE Pow2(_)
Pow2(k) == IF k = 0 THEN 1 ELSE 2 * Pow2(k - 1)

\* json.loads(resp.read()) succeeds: the body is a JSON list ("tpb") or another JSON value
\* ("object"); no response and a body that is no JSON raise inside the try
IsJson(body) == body.kind \in {"tpb", "object"}

RECURSIVE TPB_try(_, _, _, _)
\* the loops of _fetch_with_fallback from the domain at position n and attempt a on;
\* net[d][a] is what attempt a on TPB_DOMAINS[d] meets
TPB_try(domains, net, n, a) ==
  IF n > Len(domains) THEN [ok |-> FALSE, body |-> NoResponse, domain |-> None, requests |-> <<>>]
  ELSE IF a > TPB_MAX_RETRIES THEN TPB_try(domains, net, n + 1, 1)
  ELSE LET body == net[DomainIndex(domains[n])][a]
       IN IF IsJson(body)
          THEN [ok |-> TRUE, body |-> body, domain |-> domains[n],
                requests |-> <<Request(domains[n], a - 1, body.kind, 0)>>]
          ELSE With(TPB_try(domains, net, n, a + 1), LAMBDA rest :
                 [rest EXCEPT !.requests =
                    <<Request(domains[n], a - 1, body.kind,
                              TPB_RETRY_DELAY_BASE * Pow2(a - 1))>> \o @])

\* the parsed body as a return value: a list, or a dict
Parsed(body) ==
  IF body.kind = "tpb" THEN Returned(body.data) ELSE [kind |-> "dict", value |-> <<>>]

\* python truth of a parsed JSON value: an empty list is false
Truthy(body) == ~(body.kind = "tpb" /\ body.data = <<>>)

\* _read_cache returns a value for the key, and "if cached:" takes it
TPB_cache_hit(cache, key) == FM_has_cached(cache, key) /\ Truthy(FM_get_cached(cache, key))

\* _fetch_with_fallback with the cache written however the loops end
TPB_fetch_caches_failure(working_domain, cache, path, use_cache, net) ==
  IF use_cache /\ TPB_cache_hit(cache, path)
  THEN [ret |-> Parsed(FM_get_cached(cache, path)), working_domain |-> working_domain,
        cache |-> cache, requests |-> <<>>]
  ELSE With(TPB_try(TPB_domains(working_domain), net, 1, 1), LAMBDA r :
         [ret |-> IF r.ok THEN Parsed(r.body) ELSE Raised("RuntimeError"),
          working_domain |-> IF r.ok THEN r.domain ELSE working_domain,
          cache |-> IF use_cache THEN FM_set_cache(cache, path, r.body) ELSE cache,
          requests |-> r.requests])

\* _fetch_with_fallback with the working domain set from the loops however they end
TPB_fetch_forgets(working_domain, cache, path, use_cache, net) ==
  IF use_cache /\ TPB_cache_hit(cache, path)
  THEN [ret |-> Parsed(FM_get_cached(cache, path)), working_domain |-> working_domain,
        cache |-> cache, requests |-> <<>>]
  ELSE With(TPB_try(TPB_domains(working_domain), net, 1, 1), LAMBDA r :
         [ret |-> IF r.ok THEN Parsed(r.body) ELSE Raised("RuntimeError"),
          working_domain |-> r.domain,
          cache |-> IF r.ok /\ use_cache THEN FM_set_cache(cache, path, r.body) ELSE cache,
          requests |-> r.requests])

\* _fetch_with_fallback: the parsed body, or RuntimeError when no attempt on any domain
\* gave one
TPB_fetch_with_fallback(working_domain, cache, path, use_cache, net) ==
  IF use_cache /\ TPB_cache_hit(cache, path)
  THEN [ret |-> Parsed(FM_get_cached(cache, path)), working_domain |-> working_domain,
        cache |-> cache, requests |-> <<>>]
  ELSE With(TPB_try(TPB_domains(working_domain), net, 1, 1), LAMBDA r :
         IF r.ok
         THEN [ret |-> Parsed(r.body), working_domain |-> r.domain,
               cache |-> IF use_cache THEN FM_set_cache(cache, path, r.body) ELSE cache,
               requests |-> r.requests]
         ELSE [ret |-> Raised("RuntimeError"), working_domain |-> working_domain,
               cache |-> cache, requests |-> r.requests])

\* get_top100: what _fetch_with_fallback returns, whatever JSON value it is
TPB_get_top100(working_domain, cache, category, net) ==
  TPB_fetch_with_fallback(working_domain, cache,
                          <<"p","r","e","c","o","m","p","i","l","e","d","/">> \o TPB_precompiled_file(category), TRUE, net)

\* search: the items of the list without the "no results" placeholder, [] when the body is
\* no list; the RuntimeError of _fetch_with_fallback passes through
TPB_search(working_domain, query, category, net) ==
  LET path == <<"q",".","p","h","p","?","q","=">> \o UrlQuote(query) \o <<"&","c","a","t","=">> \o NatToStr(category)
  IN With(TPB_fetch_with_fallback(working_domain, {}, path, FALSE, net), LAMBDA r :
       IF r.ret.kind = "exception" THEN r
       ELSE IF r.ret.kind = "list"
       THEN [r EXCEPT !.ret.value =
               SelectSeq(@, LAMBDA t : t.id # <<"0">> /\ t.info_hash # ZeroHash)]
       ELSE [r EXCEPT !.ret = Returned(<<>>)])

\* ------------------------------------------------------------------------
\* unified_aggregator.py: add_tpb_results, and deep_research.py: deep_research_movie
\* ------------------------------------------------------------------------
QUALITY_SEARCH_TERMS == <<<<"4","K">>, <<"2","1","6","0","p">>, <<"B","l","u","R","a","y">>, <<"x","2","6","5">>, <<"H","E","V","C">>, <<"1","0","8","0","p">>, <<"7","2","0","p">>>>

\* int(item.get(field, 0)) raises ValueError: the field is there and is no number
BadInt(item, field) == field \in DOMAIN item /\ ~IsInt(item[field])

\* the arguments add_tpb_results gives add_torrent for one item, with both overrides set
UA_tpb_args(item, title, year) ==
  [source |-> "TPB", title |-> title, year |-> year, name |-> item.name,
   info_hash |-> item.info_hash, seeders |-> StrToNat(item.seeders),
   imdb_id |-> "", poster |-> "", rating |-> ""]

RECURSIVE UA_add_tpb_results(_, _, _, _, _)
\* add_tpb_results(results, title_override=title, year_override=year) with a title and a
\* year: the items are added in order; an int() that fails ends the call with the items
\* before it added
UA_add_tpb_results(ms, seen, results, title, year) ==
  IF results = <<>> THEN [movies |-> ms, seen |-> seen, raised |-> FALSE]
  ELSE IF \E field \in {"seeders", "leechers", "size"} : BadInt(Head(results), field)
  THEN [movies |-> ms, seen |-> seen, raised |-> TRUE]
  ELSE With(UA_add_torrent(ms, seen, UA_tpb_args(Head(results), title, year)), LAMBDA r :
         IF r.raised THEN r
         ELSE UA_add_tpb_results(r.movies, r.seen, Tail(results), title, year))

\* the query of step k: the base query first, then one for each of QUALITY_SEARCH_TERMS
DR_query(title, year, k) ==
  IF k = 1 THEN title \o <<" ">> \o year
  ELSE title \o <<" ">> \o year \o <<" ">> \o QUALITY_SEARCH_TERMS[k - 1]

\* one try block of deep_research_movie: client.search, then add_tpb_results; raised when
\* either left through the except clause
DR_step(ms, seen, working_domain, title, year, category, k, net) ==
  With(TPB_search(working_domain, DR_query(title, year, k), category, net), LAMBDA s :
    IF s.ret.kind = "exception"
    THEN [movies |-> ms, seen |-> seen, raised |-> TRUE, search |-> s]
    ELSE With(UA_add_tpb_results(ms, seen, s.ret.value, title, year), LAMBDA a :
           [movies |-> a.movies, seen |-> a.seen, raised |-> a.raised, search |-> s]))

\* ------------------------------------------------------------------------
\* Calls on the TPB client and a run of deep_research_movie
\* ------------------------------------------------------------------------
\* calls made on one TPBClient
MaxCalls == 3

\* an item of an apibay answer
ApiItem(id, info_hash, name, seeders, size) ==
  [id |-> id, info_hash |-> info_hash, name |-> name, seeders |-> seeders, size |-> size]

\* answers: two releases and the all-zero hash; another release; the "no results"
\* placeholder; a release followed by an item whose seeders field is no number; a JSON object
ApiHits ==
  TpbBody(<< ApiItem(<<"7">>, StrUpper(H3), <<"T","o","t","a","l",".","R","e","c","a","l","l",".","1","9","9","0",".","2","1","6","0","p",".","U","H","D",".","B","l","u","R","a","y",".","x","2","6","5","-","G","R","P">>, <<"5">>, <<"1","6","1","0","6","1","2","7","3","6">>),
             ApiItem(<<"8">>, H1Upper, <<"T","o","t","a","l",".","R","e","c","a","l","l",".","1","9","9","0",".","7","2","0","p",".","B","l","u","R","a","y">>, <<"3">>, <<"7","3","4","0","0","3","2","0","0">>),
             ApiItem(<<"9">>, ZeroHash, <<"x">>, <<"0">>, <<"0">>) >>)

ApiMore == TpbBody(<< ApiItem(<<"6">>, H4, <<"T","o","t","a","l",".","R","e","c","a","l","l",".","1","9","9","0",".","1","0","8","0","p",".","B","l","u","R","a","y">>, <<"9">>, <<"1","3","4","2","1","7","7","2","8","0">>) >>)

ApiNoResults == TpbBody(<< ApiItem(<<"0">>, ZeroHash, NoResultsName, <<"0">>, <<"0">>) >>)

ApiBadSeeders ==
  TpbBody(<< ApiItem(<<"4">>, H2, <<"T","o","t","a","l",".","R","e","c","a","l","l",".","1","9","9","0",".","1","0","8","0","p",".","W","E","B","R","i","p">>, <<"7">>, <<"1","3","4","2","1","7","7","2","8","0">>),
             ApiItem(<<"5">>, StrUpper(H4), <<"T","o","t","a","l",".","R","e","c","a","l","l",".","1","9","9","0",".","4","8","0","p">>, <<"n","/","a">>, <<"1">>) >>)

ApiObject == [kind |-> "object", data |-> <<>>]

\* the attempts on one domain: none answers; the last answers after no response and a body
\* that is no JSON; the first answers
Dead == <<NoResponse, NoResponse, NoResponse>>

Flaky(body) == <<NoResponse, Garbage, body>>

Alive(body) == <<body, body, body>>

\* what the three domains do during one call
TpbNets(bodies) ==
  {<<Dead, Dead, Dead>>, <<Flaky(Garbage), Dead, Flaky(Garbage)>>}
  \cup {<<Alive(b), Dead, Dead>> : b \in bodies}
  \cup {<<Dead, Flaky(b), Alive(b)>> : b \in bodies}
  \cup {<<Dead, Dead, Alive(b)>> : b \in bodies}

NoCall == [op |-> "init", args |-> <<>>, ret |-> NoReturn]

\* client.search(query, category)
tpb_search(query, category, net) ==
  /\ prog = "tpb_client" /\ n_calls < MaxCalls
  /\ \E r \in {TPB_search(tpb_working_domain, query, category, net)} :
        /\ tpb_working_domain' = r.working_domain
        /\ tpb_call' = [op |-> "search", args |-> <<query, category>>, ret |-> r.ret]
        /\ tpb_requests' = r.requests
  /\ n_calls' = n_calls + 1
  /\ UNCHANGED tpb_cache
  /\ tpb_frame

\* client.get_top100(category)
tpb_get_top100(category, net) ==
  /\ prog = "tpb_client" /\ n_calls < MaxCalls
  /\ \E r \in {TPB_get_top100(tpb_working_domain, tpb_cache, category, net)} :
        /\ tpb_working_domain' = r.working_domain
        /\ tpb_cache' = r.cache
        /\ tpb_call' = [op |-> "get_top100", args |-> <<category>>, ret |-> r.ret]
        /\ tpb_requests' = r.requests
  /\ n_calls' = n_calls + 1
  /\ tpb_frame

\* TPBClient()
TpbInit ==
  /\ tpb_working_domain = None /\ tpb_cache = {} /\ tpb_call = NoCall
  /\ tpb_requests = <<>> /\ n_calls = 0

TpbNext ==
  \/ \E query \in {<<"T","o","t","a","l"," ","R","e","c","a","l","l"," ","1","9","9","0">>}, category \in {0, 207}, net \in TpbNets({ApiHits, ApiNoResults, ApiObject}) :
       tpb_search(query, category, net)
  \/ \E category \in {"hd_movies", "hd_tv_shows", "documentaries"},
        net \in TpbNets({ApiHits, TpbBody(<<>>), ApiObject}) : tpb_get_top100(category, net)

\* the movie deep_research_movie is called for, and the category deep_research_catalog
\* passes for 'hd_movies'
DrTitle == <<"T","o","t","a","l"," ","R","e","c","a","l","l">>

DrYear == <<"1","9","9","0">>

DrCategory == 207

\* initial_count = len(aggregator.seen_hashes)
dr_start ==
  /\ prog = "deep_research" /\ dr_pc = "start"
  /\ dr_initial_count' = Cardinality(seen_hashes)
  /\ dr_pc' = "queries"
  /\ UNCHANGED <<dr_k, dr_ret, dr_raised, movies, seen_hashes, tpb_working_domain,
                 tpb_call, tpb_requests>>
  /\ dr_frame

\* one try block: the base search, or the search for the next of QUALITY_SEARCH_TERMS
dr_query(net) ==
  /\ prog = "deep_research" /\ dr_pc = "queries"
  /\ dr_k <= Len(QUALITY_SEARCH_TERMS) + 1
  /\ \E r \in {DR_step(movies, seen_hashes, tpb_working_domain, DrTitle, DrYear,
                         DrCategory, dr_k, net)} :
        /\ movies' = r.movies
        /\ seen_hashes' = r.seen
        /\ tpb_working_domain' = r.search.working_domain
        /\ tpb_call' = [op |-> "search",
                        args |-> <<DR_query(DrTitle, DrYear, dr_k), DrCategory>>,
                        ret |-> r.search.ret]
        /\ tpb_requests' = r.search.requests
        /\ dr_raised' = r.raised
  /\ dr_k' = dr_k + 1
  /\ UNCHANGED <<dr_pc, dr_initial_count, dr_ret>>
  /\ dr_frame

\* new_count = len(aggregator.seen_hashes) - initial_count; return new_count
dr_return ==
  /\ prog = "deep_research" /\ dr_pc = "queries"
  /\ dr_k > Len(QUALITY_SEARCH_TERMS) + 1
  /\ dr_ret' = Cardinality(seen_hashes) - dr_initial_count
  /\ dr_pc' = "returned"
  /\ UNCHANGED <<dr_k, dr_initial_count, dr_raised, movies, seen_hashes,
                 tpb_working_domain, tpb_call, tpb_requests>>
  /\ dr_frame

\* before the call
DrStart ==
  dr_pc = "start" /\ dr_k = 1 /\ dr_initial_count = 0 /\ dr_ret = 0 /\ dr_raised = FALSE

\* the torrent deep_research_catalog adds for the movie before the research
DrExisting ==
  [source |-> "TPB", title |-> DrTitle, year |-> DrYear, name |-> <<"T","o","t","a","l",".","R","e","c","a","l","l",".","1","9","9","0",".","7","2","0","p",".","B","l","u","R","a","y">>,
   info_hash |-> H1, seeders |-> 12, imdb_id |-> "", poster |-> "", rating |-> ""]

\* the aggregator deep_research_movie is given: new, or holding a torrent of the movie
DrInit ==
  /\ \E given \in {[movies |-> <<>>, seen |-> {}], UA_add_torrent(<<>>, {}, DrExisting)} :
       movies = given.movies /\ seen_hashes = given.seen
  /\ agg_call = [op |-> "init", args |-> <<>>, raised |-> FALSE]
  /\ agg_ret = <<>> /\ n_adds = 0 /\ add_order = <<>>
  /\ DrStart

\* what the three domains do during one query of the research
DrNets ==
  { <<Dead, Dead, Dead>>, <<Alive(ApiHits), Dead, Dead>>, <<Dead, Flaky(ApiMore), Dead>>,
    <<Alive(ApiBadSeeders), Dead, Dead>> }

DrNext ==
  \/ dr_start
  \/ \E net \in DrNets : dr_query(net)
  \/ dr_return

\* ------------------------------------------------------------------------
\* Batches of records with malformed ones among them
\* ------------------------------------------------------------------------
\* items of a TPB answer: two releases, one whose seeders field is no number, and the
\* all-zero hash with such a field
BatchItems ==
  { TpbItem(StrUpper(<<"b","b">> \o Repeat("6", 38)), <<"T","o","t","a","l",".","R","e","c","a","l","l",".","1","9","9","0",".","1","0","8","0","p",".","W","E","B","R","i","p">>, <<"7">>, <<"1","3","4","2","1","7","7","2","8","0">>),
    TpbItem(H4, <<"T","o","t","a","l",".","R","e","c","a","l","l",".","1","9","9","0",".","7","2","0","p">>, <<"9">>, <<"7","3","4","0","0","3","2","0","0">>),
    TpbItem(StrUpper(<<"c","c">> \o Repeat("7", 38)), <<"T","o","t","a","l",".","R","e","c","a","l","l",".","1","9","9","0",".","4","8","0","p">>, <<"n","/","a">>, <<"1">>),
    TpbItem(ZeroHash, <<"x">>, <<"n","/","a">>, <<"0">>) }

\* items in a batch
MaxBatch == 3

\* the answers: every batch of up to MaxBatch items
Batches == UNION {[1..n -> BatchItems] : n \in 0..MaxBatch}

\* search_tpb(query) with nothing cached, the request answered by the batch
call_search_tpb(batch) ==
  /\ prog = "functions" /\ fn_call = NoFnCall
  /\ fn_call' = [fn |-> "search_tpb", args |-> batch,
                 ret |-> FM_search_tpb(ColdCache, DrTitle \o <<" ">> \o DrYear,
                                       Up(TpbBody(batch))).torrents]
  /\ fn_frame

\* UnifiedAggregator().add_tpb_results(batch, title_override=..., year_override=...)
call_add_tpb_results(batch) ==
  /\ prog = "functions" /\ fn_call = NoFnCall
  /\ fn_call' = [fn |-> "add_tpb_results", args |-> batch,
                 ret |-> UA_add_tpb_results(<<>>, {}, batch, DrTitle, DrYear)]
  /\ fn_frame

\* input lines of group_results.py: two torrents, a line with three fields, and a line
\* whose quality field is blank
RecordLines ==
  { Join(<< <<"Y","T","S">>, <<"T","o","t","a","l"," ","R","e","c","a","l","l"," ","(","1","9","9","0",")">>, Magnet(H1), <<"1","0","8","0","p">>, <<"1","G","B">>, <<"5","0">>, <<"p","1">> >>, "|"),
    Join(<< <<"T","P","B">>, <<"T","o","t","a","l"," ","R","e","c","a","l","l"," ","2","0","1","2">>, Magnet(H2), <<"7","2","0","p">>, <<"2","G","B">>, <<"7">> >>, "|"),
    Join(<< <<"T","P","B">>, <<"H","e","a","t">>, Magnet(H3) >>, "|"),
    Join(<< <<"E","Z","T","V">>, <<"H","e","a","t">>, Magnet(H4), <<" ">>, <<"1","G","B">>, <<"4">> >>, "|") }

\* the lines among them that have the six fields, a title, a hash and a quality
GoodLines ==
  {l \in RecordLines : Len(Split(l, "|")) >= 6 /\ Strip(Split(l, "|")[4]) # <<>>}

GrRecordsNext ==
  \/ \E l \in RecordLines : gr_line(l)
  \/ gr_second_pass

FnRecordsNext ==
  \/ \E batch \in Batches : call_search_tpb(batch)
  \/ \E batch \in Batches : call_add_tpb_results(batch)

\* ------------------------------------------------------------------------
\* The cache files: ResponseCache (search_yts.py), TPBClient._read_cache / _write_cache,
\* get_cached / set_cache (fetch_multi_source_catalog.py), get_cached_results /
\* save_to_cache (search_eztv.py)
\* ------------------------------------------------------------------------
\* search_yts.py DEFAULT_CACHE_TTL
YTS_DEFAULT_CACHE_TTL == 3600

\* tpb_config.py CACHE_TTL
TPB_CACHE_TTL == 300

\* fetch_multi_source_catalog.py CACHE_TTL
FM_CACHE_TTL == 14400

\* search_eztv.py CACHE_TTL
EZTV_CACHE_TTL == 3600

CH_IMPLS == {"ResponseCache", "TPBClient", "get_cached", "get_cached_results"}

CH_ttl(impl) ==
  CASE impl = "ResponseCache" -> YTS_DEFAULT_CACHE_TTL
    [] impl = "TPBClient" -> TPB_CACHE_TTL
    [] impl = "get_cached" -> FM_CACHE_TTL
    [] impl = "get_cached_results" -> EZTV_CACHE_TTL

\* a JSON text is the sequence of its tokens; a file being written holds a prefix of it
Tok(kind, num, str) == [kind |-> kind, num |-> num, str |-> str]

ListOpen == Tok("[", 0, "")

ListClose == Tok("]", 0, "")

ObjOpen == Tok("{", 0, "")

ObjClose == Tok("}", 0, "")

\* json.dumps of a list of strings
JsonDumpsList(items) ==
  <<ListOpen>> \o [i \in 1..Len(items) |-> Tok("str", 0, items[i])] \o <<ListClose>>

\* json.dump of {'timestamp': t, 'key': key, 'data': items}
JsonDumpsEntry(t, items) ==
  <<ObjOpen, Tok("num", t, ""), Tok("str", 0, "key")>> \o JsonDumpsList(items) \o <<ObjClose>>

IsJsonList(text) ==
  /\ Len(text) >= 2 /\ text[1] = ListOpen /\ text[Len(text)] = ListClose
  /\ \A i \in 2..(Len(text) - 1) : text[i].kind = "str"

JsonListValue(text) == [i \in 1..(Len(text) - 2) |-> text[i + 1].str]

IsJsonEntry(text) ==
  /\ Len(text) >= 5 /\ text[1] = ObjOpen /\ text[Len(text)] = ObjClose
  /\ text[2].kind = "num" /\ text[3].kind = "str"
  /\ IsJsonList(SubSeq(text, 4, Len(text) - 1))

JsonError == [ok |-> FALSE, kind |-> "error", timestamp |-> 0, data |-> <<>>]

\* a parser that takes a text cut short for the document it begins
JsonLoads_prefix(text) ==
  IF text = <<>> THEN JsonError
  ELSE [ok |-> TRUE, kind |-> IF text[1] = ObjOpen THEN "dict" ELSE "list",
        timestamp |-> IF Len(text) >= 2 /\ text[2].kind = "num" THEN text[2].num ELSE 0,
        data |-> LET strs == SelectSeq(text, LAMBDA t : t.kind = "str" /\ t.str # "key")
                 IN [i \in 1..Len(strs) |-> strs[i].str]]

\* json.loads / json.load: the value of a text that is a whole JSON document, ValueError
\* for any other text, the empty one and every proper prefix of a document included
JsonLoads(text) ==
  IF IsJsonList(text)
  THEN [ok |-> TRUE, kind |-> "list", timestamp |-> 0, data |-> JsonListValue(text)]
  ELSE IF IsJsonEntry(text)
  THEN [ok |-> TRUE, kind |-> "dict", timestamp |-> text[2].num,
        data |-> JsonListValue(SubSeq(text, 4, Len(text) - 1))]
  ELSE JsonError

NoFile == [exists |-> FALSE, mtime |-> 0, text |-> <<>>]

Miss(file) == [kind |-> "miss", data |-> <<>>, file |-> file]

Hit(data, file) == [kind |-> "hit", data |-> data, file |-> file]

\* ResponseCache.get: the data of the entry, None when the file is missing, is no JSON
\* object (the except clause) or is older than ttl, in which case it is unlinked
CH_ResponseCache_get(file, now, ttl) ==
  IF ~file.exists THEN Miss(file)
  ELSE LET cached == JsonLoads(file.text)
       IN IF ~cached.ok \/ cached.kind # "dict" THEN Miss(file)
          ELSE IF now - cached.timestamp > ttl THEN Miss(NoFile)
          ELSE Hit(cached.data, file)

\* TPBClient._read_cache: the parsed text of a file younger than CACHE_TTL, None otherwise
CH_read_cache(file, now, ttl) ==
  IF file.exists /\ now - file.mtime < ttl /\ JsonLoads(file.text).ok
  THEN Hit(JsonLoads(file.text).data, file)
  ELSE Miss(file)

\* get_cached with REFRESH_CACHE unset: the text of a file younger than CACHE_TTL
CH_get_cached(file, now, ttl) ==
  IF file.exists /\ now - file.mtime < ttl THEN [found |-> TRUE, text |-> file.text]
  ELSE [found |-> FALSE, text |-> <<>>]

\* cached = get_cached(key), then "if cached: try: return json.loads(cached)" of
\* fetch_yts_movies, search_yts and search_tpb
CH_get_cached_parsed(file, now, ttl) ==
  LET cached == CH_get_cached(file, now, ttl)
  IN IF cached.found /\ cached.text # <<>> /\ JsonLoads(cached.text).ok
     THEN Hit(JsonLoads(cached.text).data, file)
     ELSE Miss(file)

\* get_cached_results: None for a missing file, for one older than CACHE_TTL and for a text
\* json.load rejects
CH_get_cached_results(file, now, ttl) ==
  IF ~file.exists THEN Miss(file)
  ELSE IF now - file.mtime > ttl THEN Miss(file)
  ELSE IF JsonLoads(file.text).ok THEN Hit(JsonLoads(file.text).data, file)
  ELSE Miss(file)

\* a read of the key through the cache in use
CH_read(impl, file, now) ==
  CASE impl = "ResponseCache" -> CH_ResponseCache_get(file, now, CH_ttl(impl))
    [] impl = "TPBClient" -> CH_read_cache(file, now, CH_ttl(impl))
    [] impl = "get_cached" -> CH_get_cached_parsed(file, now, CH_ttl(impl))
    [] impl = "get_cached_results" -> CH_get_cached_results(file, now, CH_ttl(impl))

\* the text ResponseCache.set, _write_cache, set_cache and save_to_cache write for the data
CH_doc(impl, data, now) ==
  IF impl = "ResponseCache" THEN JsonDumpsEntry(now, data) ELSE JsonDumpsList(data)

\* open(path, 'w'): the file exists and is empty
CH_open(now) == [exists |-> TRUE, mtime |-> now, text |-> <<>>]

\* one write of the text to the open file
CH_append(file, token, now) == [exists |-> TRUE, mtime |-> now, text |-> Append(file.text, token)]

\* a fetch whose cache write raises hands the exception on to its caller
CH_fetch_ret_raises(data, failed) ==
  IF failed THEN Raised("OSError") ELSE Returned(data)

\* the fetch returns its data after the cache write: ResponseCache.set, _write_cache,
\* set_cache and save_to_cache answer every exception of the write with pass or a warning
CH_fetch_ret(data, failed) == Returned(data)

\* fetches the fetching task makes
MaxFetches == 2

\* times the clock moves
MaxTicks == 2

\* the data of the n-th fetch
CH_data(n) == IF n % 2 = 1 THEN <<"a">> ELSE <<"b", "c">>

NoWrite ==
  [pc |-> "idle", data |-> <<>>, doc |-> <<>>, k |-> 0, failed |-> FALSE, ret |-> NoReturn,
   domain |-> None]

NoRead == [kind |-> "none", data |-> <<>>, age |-> 0, text |-> <<>>]

\* the fetching task has its data from the network; TPBClient records the domain that
\* answered, and the entry to write is built (ResponseCache takes its timestamp)
ch_fetch(domain) ==
  /\ prog = "cache" /\ ch_w.pc \in {"idle", "returned"} /\ ch_fetches < MaxFetches
  /\ ch_fetches' = ch_fetches + 1
  /\ ch_w' = [pc |-> "store", data |-> CH_data(ch_fetches + 1),
              doc |-> CH_doc(ch_impl, CH_data(ch_fetches + 1), ch_now), k |-> 0,
              failed |-> FALSE, ret |-> NoReturn,
              domain |-> IF ch_impl = "TPBClient" THEN domain ELSE None]
  /\ tpb_working_domain' = IF ch_impl = "TPBClient" THEN domain ELSE tpb_working_domain
  /\ UNCHANGED <<ch_now, ch_ticks, ch_file, ch_read>>
  /\ ch_frame

\* the write opens the file, which truncates it, or open raises and the fetch returns
ch_open(ok) ==
  /\ prog = "cache" /\ ch_w.pc = "store"
  /\ IF ok
     THEN /\ ch_file' = CH_open(ch_now)
          /\ ch_w' = [ch_w EXCEPT !.pc = "write"]
     ELSE /\ ch_file' = ch_file
          /\ ch_w' = [ch_w EXCEPT !.pc = "returned", !.failed = TRUE,
                                  !.ret = CH_fetch_ret(ch_w.data, TRUE)]
  /\ UNCHANGED <<ch_now, ch_ticks, ch_fetches, ch_read, tpb_working_domain>>
  /\ ch_frame

\* the next part of the text reaches the file, the last one closes it and the fetch
\* returns; or the write raises and the fetch returns with the file cut short
ch_write(ok) ==
  /\ prog = "cache" /\ ch_w.pc = "write"
  /\ IF ok
     THEN /\ ch_file' = CH_append(ch_file, ch_w.doc[ch_w.k + 1], ch_now)
          /\ ch_w' = IF ch_w.k + 1 = Len(ch_w.doc)
                     THEN [ch_w EXCEPT !.k = @ + 1, !.pc = "returned",
                                       !.ret = CH_fetch_ret(ch_w.data, ch_w.failed)]
                     ELSE [ch_w EXCEPT !.k = @ + 1]
     ELSE /\ ch_file' = ch_file
          /\ ch_w' = [ch_w EXCEPT !.pc = "returned", !.failed = TRUE,
                                  !.ret = CH_fetch_ret(ch_w.data, TRUE)]
  /\ UNCHANGED <<ch_now, ch_ticks, ch_fetches, ch_read, tpb_working_domain>>
  /\ ch_frame

\* the age a read computes: from the timestamp of the entry for ResponseCache, from
\* st_mtime for the others
CH_age(impl, file, now) ==
  IF impl = "ResponseCache" THEN now - JsonLoads(file.text).timestamp ELSE now - file.mtime

\* the reading task reads the key
ch_get ==
  /\ prog = "cache"
  /\ \E r \in {CH_read(ch_impl, ch_file, ch_now)} :
        /\ ch_read' = [kind |-> r.kind, data |-> r.data,
                       age |-> CH_age(ch_impl, ch_file, ch_now), text |-> ch_file.text]
        /\ ch_file' = r.file
  /\ UNCHANGED <<ch_now, ch_ticks, ch_w, ch_fetches, tpb_working_domain>>
  /\ ch_frame

\* time passes: a second, or a second less than the time to live
ch_tick(d) ==
  /\ prog = "cache" /\ ch_ticks < MaxTicks
  /\ ch_now' = ch_now + d
  /\ ch_ticks' = ch_ticks + 1
  /\ UNCHANGED <<ch_file, ch_w, ch_fetches, ch_read, tpb_working_domain>>
  /\ ch_frame

\* the cache directory is empty and no task has started
ChStart ==
  /\ ch_now = 0 /\ ch_ticks = 0 /\ ch_file = NoFile /\ ch_w = NoWrite /\ ch_fetches = 0
  /\ ch_read = NoRead

ChInit == ch_impl \in CH_IMPLS /\ ChStart

\* no cache in use in this process
ChIdle == ch_impl = "ResponseCache" /\ ChStart

ChNext ==
  \/ \E domain \in Range(TPB_DOMAINS) : ch_fetch(domain)
  \/ \E ok \in BOOLEAN : ch_open(ok)
  \/ \E ok \in BOOLEAN : ch_write(ok)
  \/ ch_get
  \/ \E d \in {1, CH_ttl(ch_impl) - 1} : ch_tick(d)

\* ------------------------------------------------------------------------
\* A YTS listing with two movies of one year
\* ------------------------------------------------------------------------
\* a movie of the year of MovieHeat, its one torrent with the seeds of MovieHeat's
MovieCasino ==
  [title |-> <<"C","a","s","i","n","o">>, year |-> <<"1","9","9","5">>, medium_cover_image |-> <<"p","2">>, rating |-> 8,
   genres |-> <<<<"C","r","i","m","e">>>>,
   torrents |-> << YtsTorrent(StrUpper(<<"f","a">> \o Repeat("6", 38)), <<"1","0","8","0","p">>, <<"2","G","B">>, 10) >>]

\* the same movie as a later request finds it: another cover, another rating
MovieCasinoLater ==
  [MovieCasino EXCEPT !.medium_cover_image = <<"p","3">>, !.rating = 7]

\* what the three YTS domains answer to a listing request
SameYearListAnswers ==
  { <<Down, Down, Down>>,
    <<Up(YtsOk(<<MovieHeat, MovieCasino>>)), Down, Down>>,
    <<Down, Retried(YtsOk(<<MovieCasinoLater>>)), Down>>,
    <<Up(YtsError), Up(YtsOk(<<MovieHeat>>)), Down>> }

\* ------------------------------------------------------------------------
\* unified_aggregator.py run as a program: the self-test
\* ------------------------------------------------------------------------
\* the four add_torrent calls of the self-test, in order; the third repeats the first
SelfTestCalls ==
  << [source |-> "TPB", title |-> TheMatrix, year |-> Y1999,
      name |-> <<"M","a","t","r","i","x",".","1","9","9","9",".","1","0","8","0","p",".","B","l","u","R","a","y">>,
      info_hash |-> <<"A","B","C","1","2","3","D","E","F","4","5","6">>, seeders |-> 1000,
      imdb_id |-> "", poster |-> "", rating |-> ""],
     [source |-> "YTS", title |-> MatrixThe, year |-> Y1999,
      name |-> <<"M","a","t","r","i","x",".","1","9","9","9",".","7","2","0","p",".","W","E","B">>,
      info_hash |-> <<"D","E","F","4","5","6","G","H","I","7","8","9">>, seeders |-> 800,
      imdb_id |-> "", poster |-> "", rating |-> ""],
     [source |-> "TPB", title |-> TheMatrix, year |-> Y1999,
      name |-> <<"M","a","t","r","i","x",".","1","9","9","9",".","1","0","8","0","p",".","B","l","u","R","a","y">>,
      info_hash |-> <<"A","B","C","1","2","3","D","E","F","4","5","6">>, seeders |-> 1000,
      imdb_id |-> "", poster |-> "", rating |-> ""],
     [source |-> "TPB", title |-> TheMatrix, year |-> Y1999,
      name |-> <<"M","a","t","r","i","x",".","1","9","9","9",".","4","K",".","U","H","D">>,
      info_hash |-> <<"X","Y","Z","7","8","9","A","B","C","1","2","3">>, seeders |-> 500,
      imdb_id |-> "", poster |-> "", rating |-> ""] >>

\* spellings of the title that differ by the place of "The", by letter case and by
\* punctuation
TitleSpellings ==
  { TheMatrix, MatrixThe,
    <<"t","h","e"," ","m","a","t","r","i","x">>,
    <<"T","H","E"," "," ","M","A","T","R","I","X","!">>,
    <<"M","a","t","r","i","x",",","T","h","e">>,
    <<"M","a","t","r","i","x",":"," ",","," "," ","t","h","e">> }

\* call number n_adds + 1 of the self-test, its title in one of the spellings and its hash
\* in the letter case of the self-test or in lower case
self_test_add(title, lower) ==
  /\ prog = "self_test"
  /\ n_adds < Len(SelfTestCalls)
  /\ \E a \in {[SelfTestCalls[n_adds + 1] EXCEPT
                  !.title = title,
                  !.info_hash = IF lower THEN StrLower(@) ELSE @]} :
       \E r \in {UA_add_torrent(movies, seen_hashes, a)} :
          /\ movies' = r.movies
          /\ seen_hashes' = r.seen
          /\ agg_call' = [op |-> "add_torrent", args |-> a, raised |-> r.raised]
          /\ add_order' = IF r.seen # seen_hashes
                          THEN Append(add_order, StrLower(a.info_hash)) ELSE add_order
  /\ n_adds' = n_adds + 1
  /\ UNCHANGED agg_ret
  /\ agg_frame

\* stats = agg.stats(), after the four calls
self_test_stats ==
  /\ prog = "self_test"
  /\ n_adds = Len(SelfTestCalls)
  /\ agg_call.op # "stats"
  /\ movies' = UA_finalize(movies)
  /\ agg_ret' = [movies |-> Len(movies'), torrents |-> SumLen(movies'),
                 unique_hashes |-> Cardinality(seen_hashes),
                 sources |-> UNION {Range(movies'[i].sources.elems) : i \in 1..Len(movies')}]
  /\ agg_call' = [op |-> "stats", args |-> <<>>, raised |-> FALSE]
  /\ UNCHANGED <<seen_hashes, n_adds, add_order>>
  /\ agg_frame

SelfTestNext ==
  \/ \E title \in TitleSpellings, lower \in BOOLEAN : self_test_add(title, lower)
  \/ self_test_stats

\* ------------------------------------------------------------------------
\* scripts/python/fetch_multi_source_catalog.py: the TV shows of fetch_enriched_catalog,
\* fetch_tpb_fallback_catalog(limit * 2, category=208)
\* ------------------------------------------------------------------------
EZTV_DOMAINS == <<"eztv.yt", "eztv1.xyz", "eztv.tf", "eztvx.to", "eztv.re">>

\* limit * 2 with the default limit of fetch_enriched_catalog
FE_SHOWS_LIMIT == 100

\* the first patterns of normalize_series_name: the series name before the episode marker
FE_series_markers ==
  << <<ReItem({}, TRUE, 1, -1, TRUE), RePlus({".", " "})>> \o ReLitI(<<"S">>)
       \o <<ReItem(ReDigit, FALSE, 1, 2, FALSE)>>,
     <<ReItem({}, TRUE, 1, -1, TRUE), RePlus({".", " "}), RePlus(ReDigit)>> \o ReLitI(<<"x">>)
       \o <<RePlus(ReDigit)>>,
     <<ReItem({}, TRUE, 1, -1, TRUE), RePlus({".", " "})>> \o ReLitI(<<"S","e","a","s","o","n">>)
       \o <<ReStar(ReSpace), RePlus(ReDigit)>> >>

FE_series_qualities ==
  << <<"1","0","8","0","p">>, <<"7","2","0","p">>, <<"4","8","0","p">>, <<"2","1","6","0","p">>,
     <<"4","K">> >>

FE_normalize_series_name(name) ==
  LET ends == {ReMatch(name, 1, FE_series_markers[p], 1)[2] :
                 p \in ReAlts(name, 1, FE_series_markers)}
      n0 == IF ends = {} THEN name ELSE SubSeq(name, 1, Min(ends) - 1)
      n1 == ReSub(n0, << <<ReOne({"-"}), RePlus(ReAlnum), ReEnd>> >>, <<>>)
      n2 == ReSub(n1, [t \in 1..Len(FE_series_qualities) |->
                         <<RePlus({".", " "})>> \o ReLitI(FE_series_qualities[t])], <<>>)
      n3 == ReSub(n2, << <<ReOne({"["}), ReLazyAny, ReOne({"]"})>> >>, <<>>)
      n4 == ReSub(n3, << <<ReOne({"("}), ReLazyAny, ReOne({")"})>> >>, <<>>)
      n5 == ReSub(n4, [p \in 1..2 |-> <<RePlus({".", " "})>> \o ReCentury[p] \o <<ReEnd>>], <<>>)
      n6 == ReSub(DotsToSpaces(n5), << <<RePlus({"-", " "}), ReEnd>> >>, <<>>)
  IN StrTitle(Strip(CollapseSpaces(n6)))

\* an item of all_items; seeders and size as their text, a key the dict lacks reads as the
\* default of the .get that reads it
FE_show_item(source, name, info_hash, seeders, size) ==
  [source |-> source, name |-> name, info_hash |-> info_hash, seeders |-> seeders,
   size |-> size]

\* the items of a top 100 answer with a usable hash, marked as TPB's
FE_tpb_show_items(data, n) ==
  With(SubSeq(data, 1, IF Len(data) < n THEN Len(data) ELSE n), LAMBDA top :
    With(SelectSeq(top, LAMBDA item : item.info_hash # <<>> /\ item.info_hash # ZeroHash),
         LAMBDA usable :
      [i \in 1..Len(usable) |->
         FE_show_item(TPB, usable[i].name, usable[i].info_hash, usable[i].seeders,
                      usable[i].size)]))

\* fetch_tpb_category: [] without a response or with a body that is no JSON list
FE_fetch_tpb_category(attempts) ==
  LET response == FM_fetch_url(attempts)
  IN IF response.kind # "tpb" THEN <<>> ELSE FE_tpb_show_items(response.data, 100)

RECURSIVE FE_eztv_response(_, _)
\* the loop over EZTV_DOMAINS from domain d on: the first response, of any content
FE_eztv_response(answers, d) ==
  IF d > Len(EZTV_DOMAINS) THEN NoResponse
  ELSE IF FM_fetch_url(answers[d]).kind # "none" THEN FM_fetch_url(answers[d])
  ELSE FE_eztv_response(answers, d + 1)

EztvKey == <<"1","0","0","_","1">>

\* fetch_eztv_shows(100): the cached list, or the torrents of the response that have a
\* hash, cached when there are any; [] when the response is no EZTV answer
FE_fetch_eztv_shows(cache, answers) ==
  IF FM_has_cached(cache.eztv_shows, EztvKey)
  THEN [items |-> FM_get_cached(cache.eztv_shows, EztvKey), cache |-> cache]
  ELSE With(FE_eztv_response(answers, 1), LAMBDA response :
    IF response.kind # "eztv" THEN [items |-> <<>>, cache |-> cache]
    ELSE With(SubSeq(response.data, 1, IF Len(response.data) < 100 THEN Len(response.data)
                                       ELSE 100), LAMBDA top :
      With(SelectSeq(top, LAMBDA t : t.hash # <<>>), LAMBDA usable :
        With([i \in 1..Len(usable) |->
                FE_show_item(<<"E","Z","T","V">>, usable[i].title, StrUpper(usable[i].hash),
                             NatToStr(usable[i].seeds), NatToStr(usable[i].size_bytes))],
             LAMBDA results :
          [items |-> results,
           cache |-> IF results # <<>>
                     THEN [cache EXCEPT !.eztv_shows = FM_set_cache(@, EztvKey, results)]
                     ELSE cache]))))

RECURSIVE FE_series_groups(_, _)
\* series_groups after the items: the lists of the series names, in insertion order
FE_series_groups(groups, items) ==
  IF items = <<>> THEN groups
  ELSE With(FE_normalize_series_name(Head(items).name), LAMBDA series_name :
    With(IF \E n \in 1..Len(groups) : groups[n].series = series_name
         THEN CHOOSE n \in 1..Len(groups) : groups[n].series = series_name ELSE 0, LAMBDA n :
      FE_series_groups(
        IF series_name = <<>> THEN groups
        ELSE IF n = 0 THEN Append(groups, [series |-> series_name, torrents |-> <<Head(items)>>])
        ELSE [groups EXCEPT ![n].torrents = Append(@, Head(items))],
        Tail(items))))

\* the COMBINED line of one series
FE_series_combined(series_name, torrents) ==
  Join(<< CombinedTag, series_name,
          Join(Field(torrents, LAMBDA t : t.source), "^"),
          Join(Field(torrents, LAMBDA t : FM_extract_quality(t.name)), "^"),
          Join(Field(torrents, LAMBDA t : t.seeders), "^"),
          Join(Field(torrents, LAMBDA t : FM_size_str(StrToNat(t.size) \div (1024 * 1024))), "^"),
          Join(Field(SelectSeq(torrents, LAMBDA t : t.info_hash # <<>>),
                     LAMBDA t : Magnet(t.info_hash)), "^"),
          NA, NA, <<"S","h","o","w","s">>, NatToStr(Len(torrents)) >>, "|")

\* group_shows_by_series: raised is an int() that fails, of a seeders field when the series
\* are sorted or of a size field when the line of a series is written
FE_group_shows_by_series(items, limit) ==
  With(FE_series_groups(<<>>, items), LAMBDA groups :
    IF \E n \in 1..Len(groups) : \E k \in 1..Len(groups[n].torrents) :
         ~IsInt(groups[n].torrents[k].seeders)
    THEN [raised |-> TRUE, results |-> <<>>]
    ELSE With(StableSortDescBy(groups, LAMBDA g :
                Max({StrToNat(g.torrents[k].seeders) : k \in 1..Len(g.torrents)})),
              LAMBDA sorted_series :
      With(SubSeq(sorted_series, 1, IF Len(sorted_series) < limit THEN Len(sorted_series)
                                    ELSE limit), LAMBDA top :
        IF \E n \in 1..Len(top) : \E k \in 1..Len(top[n].torrents) :
             ~IsInt(top[n].torrents[k].size)
        THEN [raised |-> TRUE, results |-> <<>>]
        ELSE [raised |-> FALSE,
              results |-> [n \in 1..Len(top) |->
                             FE_series_combined(top[n].series, top[n].torrents)]])))

\* what the TV sources may answer: the top 100 of category 208, that of category 205, and
\* the EZTV listing, which has the first episode of the top 100 under its lower-case hash
ShowHash == <<"e","e">> \o Repeat("9", 38)

TvTop100 ==
  TpbBody(<< TpbItem(StrUpper(ShowHash), <<"S","o","m","e",".","S","h","o","w",".","S","0","1","E","0","2",".","7","2","0","p">>, <<"6","0">>, <<"7","3","4","0","0","3","2","0","0">>),
             TpbItem(ZeroHash, <<"x">>, <<"0">>, <<"0">>) >>)

TvNonHD ==
  TpbBody(<< TpbItem(StrUpper(<<"e","d">> \o Repeat("7", 38)), <<"S","o","m","e",".","S","h","o","w",".","S","0","1","E","0","1",".","X","v","i","D","-","G","R","P">>, <<"2","0">>, <<"3","6","7","0","0","1","6","0","0">>),
             TpbItem(StrUpper(<<"e","c">> \o Repeat("5", 38)), <<"O","t","h","e","r"," ","S","h","o","w"," ","(","2","0","2","4",")"," ","S","e","a","s","o","n"," ","2">>, <<"9","0">>, <<"1","6","1","0","6","1","2","7","3","6">>) >>)

EztvBody(torrents) == [kind |-> "eztv", data |-> torrents]

EztvTorrent(hash, title, seeds, size_bytes) ==
  [hash |-> hash, title |-> title, seeds |-> seeds, size_bytes |-> size_bytes]

EztvListing ==
  EztvBody(<< EztvTorrent(ShowHash, <<"S","o","m","e"," ","S","h","o","w"," ","S","0","1","E","0","2"," ","7","2","0","p"," ","H","D","T","V">>, 45, 734003200),
              EztvTorrent(<<"e","b">> \o Repeat("3", 38), <<"o","t","h","e","r",".","s","h","o","w",".","2","x","0","3",".","h","d","t","v">>, 30, 367001600) >>)

TvTop100Attempts == {Down, Retried(TvTop100), Up(Garbage)}

TvCategoryAttempts == {Down, Up(TvNonHD), Up(TpbBadSeeders)}

EztvAnswers ==
  { <<Down, Down, Down, Down, Down>>,
    <<Down, Retried(EztvListing), Down, Down, Down>>,
    <<Up(Garbage), Up(EztvListing), Down, Down, Down>> }

\* the call up to the executor: the top 100 of category 208; the two tasks are submitted,
\* task 1 fetch_tpb_category(205) and task 2 fetch_eztv_shows(100)
tv_top100(attempts) ==
  /\ prog = "catalog" /\ cat_variant = "shows" /\ cat_pc = "start"
  /\ \E response \in {FM_fetch_url(attempts)} :
       IF response.kind # "tpb"
       THEN /\ cat_ret' = Returned(<<>>)
            /\ cat_pc' = "returned"
            /\ UNCHANGED <<cat_movies, cat_pending>>
       ELSE /\ cat_movies' = FE_tpb_show_items(response.data, FE_SHOWS_LIMIT * 2)
            /\ cat_pending' = {1, 2}
            /\ cat_pc' = "shows"
            /\ UNCHANGED cat_ret
  /\ cat_net' = cat_net \cup NetOf(<<attempts>>)
  /\ UNCHANGED <<cat_variant, cat_parallel, cat_cache, cat_all_movies, cat_results, cat_log>>
  /\ cat_frame

\* the future of fetch_tpb_category(205) completes: all_items.extend(items)
tv_category(attempts) ==
  /\ prog = "catalog" /\ cat_variant = "shows" /\ cat_pc = "shows"
  /\ 1 \in cat_pending
  /\ \E items \in {FE_fetch_tpb_category(attempts)} :
       /\ cat_movies' = cat_movies \o items
       /\ cat_log' = Append(cat_log, [phase |-> 1, task |-> 1, enriched |-> items])
  /\ cat_net' = cat_net \cup NetOf(<<attempts>>)
  /\ cat_pending' = cat_pending \ {1}
  /\ UNCHANGED <<cat_variant, cat_parallel, cat_cache, cat_pc, cat_all_movies, cat_results,
                 cat_ret>>
  /\ cat_frame

\* the future of fetch_eztv_shows(100) completes: all_items.extend(items)
tv_eztv(answers) ==
  /\ prog = "catalog" /\ cat_variant = "shows" /\ cat_pc = "shows"
  /\ 2 \in cat_pending
  /\ \E r \in {FE_fetch_eztv_shows(cat_cache, answers)} :
       /\ cat_cache' = r.cache
       /\ cat_movies' = cat_movies \o r.items
       /\ cat_log' = Append(cat_log, [phase |-> 1, task |-> 2, enriched |-> r.items])
  /\ cat_net' = cat_net \cup (IF FM_has_cached(cat_cache.eztv_shows, EztvKey) THEN {"cache"}
                              ELSE NetOf(answers))
  /\ cat_pending' = cat_pending \ {2}
  /\ UNCHANGED <<cat_variant, cat_parallel, cat_pc, cat_all_movies, cat_results, cat_ret>>
  /\ cat_frame

\* as_completed(futures, timeout=12) raises TimeoutError with a future still pending:
\* fetch_tpb_category spends up to 8 + 0.5 + 8 seconds in fetch_url, fetch_eztv_shows up to
\* 6 + 0.5 + 6 for each of its five domains.  The executor is left after its tasks have
\* ended (a pending fetch_eztv_shows still writes its cache file), and the except
\* Exception of fetch_tpb_fallback_catalog answers the error with return []
tv_timeout(answers) ==
  /\ prog = "catalog" /\ cat_variant = "shows" /\ cat_pc = "shows"
  /\ cat_pending # {}
  /\ cat_cache' = IF 2 \in cat_pending THEN FE_fetch_eztv_shows(cat_cache, answers).cache
                  ELSE cat_cache
  /\ cat_ret' = Returned(<<>>)
  /\ cat_pc' = "timed_out"
  /\ UNCHANGED <<cat_variant, cat_parallel, cat_movies, cat_pending, cat_all_movies,
                 cat_results, cat_log, cat_net>>
  /\ cat_frame

\* return group_shows_by_series(all_items, limit), [] when it raises
tv_group ==
  /\ prog = "catalog" /\ cat_variant = "shows" /\ cat_pc = "shows"
  /\ cat_pending = {}
  /\ \E r \in {FE_group_shows_by_series(cat_movies, FE_SHOWS_LIMIT)} :
       /\ cat_results' = r.results
       /\ cat_ret' = Returned(r.results)
  /\ cat_pc' = "returned"
  /\ UNCHANGED <<cat_variant, cat_parallel, cat_cache, cat_movies, cat_pending,
                 cat_all_movies, cat_log, cat_net>>
  /\ cat_frame

\* CACHE_DIR holding the EZTV listing of an earlier call
EztvCache ==
  [ColdCache EXCEPT !.eztv_shows =
     {[key |-> EztvKey, data |-> FE_fetch_eztv_shows(ColdCache, <<Up(EztvListing), Down, Down, Down, Down>>).items]}]

TvInit ==
  /\ cat_variant = "shows" /\ cat_parallel = TRUE
  /\ cat_cache \in {ColdCache, EztvCache}
  /\ CatStart

TvNext ==
  \/ \E attempts \in TvTop100Attempts : tv_top100(attempts)
  \/ \E attempts \in TvCategoryAttempts : tv_category(attempts)
  \/ \E answers \in EztvAnswers : tv_eztv(answers)
  \/ \E answers \in EztvAnswers : tv_timeout(answers)
  \/ tv_group

\* ------------------------------------------------------------------------
\* search_yts.py: fetch_with_retry and DomainManager.find_working_domain
\* ------------------------------------------------------------------------
DEFAULT_YTS_DOMAINS == <<"https://yts.lt", "https://yts.rs", "https://yts.do", "https://yts.ag", "https://yts.am", "https://yts.pm", "https://yts.hn", "https://yts.mx">>

SY_DEFAULT_MAX_RETRIES == 3

\* base_delay=1.0, seconds
SY_base_delay == 1

\* what one urlopen meets: a response with a status and a content, or an exception
HttpAnswer(status, content) == [kind |-> "response", status |-> status, content |-> content]

HttpError == [kind |-> "error", status |-> 0, content |-> <<>>]

RECURSIVE SY_retry(_, _, _, _)
\* the loop of fetch_with_retry from attempt number a (counted from 0) on: the content of
\* the first response with status 200; a sleep follows every other attempt but the last
SY_retry(url, max_retries, answers, a) ==
  IF a >= max_retries THEN [ret |-> None, requests |-> <<>>]
  ELSE LET answer == answers[a + 1]
       IN IF answer.kind = "response" /\ answer.status = 200
          THEN [ret |-> answer.content, requests |-> <<Request(url, a, "200", 0)>>]
          ELSE With(SY_retry(url, max_retries, answers, a + 1), LAMBDA rest :
                 [rest EXCEPT !.requests =
                    <<Request(url, a, answer.kind,
                              IF a < max_retries - 1 THEN SY_base_delay * Pow2(a) ELSE 0)>>
                    \o @])

\* fetch_with_retry(url, max_retries): the content, or None after max_retries attempts
SY_fetch_with_retry(url, max_retries, answers) == SY_retry(url, max_retries, answers, 0)

\* _test_domain: one request; status 200 and a content with one of the markers
SY_test_domain(answer) ==
  /\ answer.kind = "response" /\ answer.status = 200
  /\ \/ ReSearch(answer.content, <<ReLit(<<"b","r","o","w","s","e","-","m","o","v","i","e">>)>>) # <<>>
     \/ ReSearch(StrLower(answer.content), <<ReLit(<<"y","t","s">>)>>) # <<>>

RECURSIVE SY_test_each(_, _, _, _)
\* "for domain in self.domains" of find_working_domain from position n on; net[n] are the
\* answers the tests of domain n meet in this call, tested is the domain whose first answer
\* the health check of the cached domain has used up
SY_test_each(domains, net, n, tested) ==
  IF n > Len(domains) THEN [ret |-> None, stored |-> None, requests |-> <<>>]
  ELSE LET a == IF domains[n] = tested THEN 1 ELSE 0
           answer == net[n][a + 1]
       IN IF SY_test_domain(answer)
          THEN [ret |-> domains[n], stored |-> domains[n],
                requests |-> <<Request(domains[n], a, "passed", 0)>>]
          ELSE With(SY_test_each(domains, net, n + 1, tested), LAMBDA rest :
                 [rest EXCEPT !.requests = <<Request(domains[n], a, "failed", 0)>> \o @])

\* find_working_domain: cached_domain is what self.cache.get('working_domain') gives; ret
\* is the domain returned, stored the value given to self.cache.set('working_domain', .),
\* None when the call makes no cache.set
SY_find_working_domain(domains, cached_domain, net) ==
  IF cached_domain # None /\ cached_domain # "" /\ cached_domain \in Range(domains)
  THEN LET n == CHOOSE i \in 1..Len(domains) : domains[i] = cached_domain
       IN IF SY_test_domain(net[n][1])
          THEN [ret |-> cached_domain, stored |-> None,
                requests |-> <<Request(cached_domain, 0, "passed", 0)>>]
          ELSE With(SY_test_each(domains, net, 1, cached_domain), LAMBDA rest :
                 [rest EXCEPT !.requests = <<Request(cached_domain, 0, "failed", 0)>> \o @])
  ELSE SY_test_each(domains, net, 1, None)

\* ------------------------------------------------------------------------
\* search_eztv.py: search_eztv
\* ------------------------------------------------------------------------
SE_EZTV_DOMAINS == <<"https://eztv.re", "https://eztv.wf", "https://eztv.it", "https://eztv.ch">>

SE_MAX_RETRIES == 3

\* seconds
SE_RETRY_DELAY == 1

\* what make_request gives: None (the request raised, or the body is no JSON), or the
\* parsed object with its torrents_count and torrents
EzNone == [kind |-> "none", torrents_count |-> 0, torrents |-> <<>>]

EzData(torrents_count, torrents) ==
  [kind |-> "data", torrents_count |-> torrents_count, torrents |-> torrents]

\* search_eztv_api: [] without data or with torrents_count 0, data['torrents'] otherwise
SE_search_eztv_api(answer) ==
  IF answer.kind = "none" \/ answer.torrents_count = 0 THEN <<>> ELSE answer.torrents

RECURSIVE SE_try(_, _, _)
\* the loops of search_eztv from domain n and attempt a (counted from 0) on: an attempt
\* that gives no torrents is followed by the next, after a sleep unless it was the last
\* on its domain
SE_try(net, n, a) ==
  IF n > Len(SE_EZTV_DOMAINS) THEN [torrents |-> <<>>, requests |-> <<>>]
  ELSE IF a >= SE_MAX_RETRIES THEN SE_try(net, n + 1, 0)
  ELSE LET answer == net[n][a + 1]
           torrents == SE_search_eztv_api(answer)
       IN IF torrents # <<>>
          THEN [torrents |-> torrents,
                requests |-> <<Request(SE_EZTV_DOMAINS[n], a, "torrents", 0)>>]
          ELSE With(SE_try(net, n, a + 1), LAMBDA rest :
                 [rest EXCEPT !.requests =
                    <<Request(SE_EZTV_DOMAINS[n], a,
                              IF answer.kind = "none" THEN "none" ELSE "no torrents",
                              IF a < SE_MAX_RETRIES - 1 THEN SE_RETRY_DELAY * Pow2(a) ELSE 0)>>
                    \o @])

\* the result of one torrent, by the fields its line is formatted from
SE_result(torrent) ==
  [source |-> "EZTV", title |-> torrent.title, magnet |-> torrent.magnet_url,
   seeds |-> torrent.seeds]

RECURSIVE SE_results(_)
\* "for torrent in torrents": a torrent without magnet_url gives no result
SE_results(torrents) ==
  IF torrents = <<>> THEN <<>>
  ELSE (IF Head(torrents).magnet_url = <<>> THEN <<>> ELSE <<SE_result(Head(torrents))>>)
       \o SE_results(Tail(torrents))

\* search_eztv(query): cache holds the fresh entries of CACHE_DIR by the lower-cased query
SE_search_eztv(cache, query, net) ==
  IF query = <<>> THEN [ret |-> <<>>, cache |-> cache, requests |-> <<>>]
  ELSE IF FM_has_cached(cache, StrLower(query))
  THEN [ret |-> FM_get_cached(cache, StrLower(query)), cache |-> cache, requests |-> <<>>]
  ELSE With(SE_try(net, 1, 0), LAMBDA r :
         IF r.torrents = <<>> THEN [ret |-> <<>>, cache |-> cache, requests |-> r.requests]
         ELSE With(SE_results(r.torrents), LAMBDA results :
                [ret |-> results, cache |-> FM_set_cache(cache, StrLower(query), results),
                 requests |-> r.requests]))

\* ------------------------------------------------------------------------
\* Calls of find_working_domain, fetch_with_retry and search_eztv
\* ------------------------------------------------------------------------
\* a page of a YTS mirror, a page of a parked domain, a status that is not 200
YtsPage == HttpAnswer(200, <<"<","t","i","t","l","e",">","Y","T","S">>)

ParkedPage == HttpAnswer(200, <<"f","o","r"," ","s","a","l","e">>)

Unavailable == HttpAnswer(503, <<"y","t","s">>)

\* the tests of the domains during one call: domain n passes its first test when n is in
\* first and its second when n is in second
YtsTests(first, second) ==
  [n \in 1..Len(DEFAULT_YTS_DOMAINS) |->
     LET fails == CASE n % 3 = 0 -> HttpError [] n % 3 = 1 -> ParkedPage [] OTHER -> Unavailable
     IN << IF n \in first THEN YtsPage ELSE fails, IF n \in second THEN YtsPage ELSE fails >>]

YtsLive == {{}, {1}, {3}, {3, 5}, {8}, {2, 3}}

\* what self.cache.get('working_domain') gives: nothing, an empty text, a configured
\* domain, a domain that is configured no more
YtsCached ==
  {None, "", DEFAULT_YTS_DOMAINS[1], DEFAULT_YTS_DOMAINS[3], DEFAULT_YTS_DOMAINS[5],
   "https://yts.nz"}

\* DomainManager(cache).find_working_domain()
call_find_working_domain(cached_domain, first, second) ==
  /\ prog = "functions" /\ fn_call = NoFnCall
  /\ fn_call' = [fn |-> "find_working_domain",
                 args |-> [cached_domain |-> cached_domain,
                           net |-> YtsTests(first, second)],
                 ret |-> SY_find_working_domain(DEFAULT_YTS_DOMAINS, cached_domain,
                                                YtsTests(first, second))]
  /\ fn_frame

\* fetch_with_retry(url, max_retries)
call_fetch_with_retry(url, max_retries, answers) ==
  /\ prog = "functions" /\ fn_call = NoFnCall
  /\ fn_call' = [fn |-> "fetch_with_retry",
                 args |-> [url |-> url, max_retries |-> max_retries, answers |-> answers],
                 ret |-> SY_fetch_with_retry(url, max_retries, answers)]
  /\ fn_frame

\* torrents of an EZTV answer: a release, and a release without magnet_url
EzTorrent(title, magnet_url, seeds) ==
  [title |-> title, magnet_url |-> magnet_url, seeds |-> seeds]

EzHit == EzData(1, <<EzTorrent(<<"S","o","m","e"," ","S","h","o","w"," ","S","0","1","E","0","2"," ","7","2","0","p">>, Magnet(H1), 12)>>)

EzNoMagnet == EzData(1, <<EzTorrent(<<"S","o","m","e"," ","S","h","o","w"," ","S","0","1","E","0","3">>, <<>>, 4)>>)

\* an answer that counts no torrent, and one that counts some and lists none
EzNoResults == EzData(0, <<>>)

EzMiscounted == EzData(2, <<>>)

\* the attempts on one domain
EzSame(answer) == <<answer, answer, answer>>

EzFlaky(answer) == <<EzNone, EzNoResults, answer>>

\* what the four domains do during one call
EzNets ==
  {<<EzSame(EzNone), EzSame(EzNone), EzSame(EzNone), EzSame(EzNone)>>,
   <<EzSame(EzNoResults), EzSame(EzNoResults), EzSame(EzNoResults), EzSame(EzNoResults)>>,
   <<EzSame(EzNone), EzSame(EzMiscounted), EzSame(EzNone), EzFlaky(EzMiscounted)>>}
  \cup UNION {{<<EzSame(x), EzSame(EzNone), EzSame(EzNone), EzSame(EzNone)>>,
               <<EzSame(EzNone), EzFlaky(x), EzSame(x), EzSame(EzNone)>>,
               <<EzSame(EzNoResults), EzSame(EzNone), EzSame(EzNone), EzFlaky(x)>>}
              : x \in {EzHit, EzNoMagnet}}

EzQuery == <<"S","o","m","e"," ","S","h","o","w">>

\* CACHE_DIR before the call: empty, or with fresh entries of earlier searches
EzCaches ==
  {{}, {[key |-> StrLower(EzQuery), data |-> SE_results(EzHit.torrents)]},
   {[key |-> <<"o","t","h","e","r">>, data |-> <<>>]}}

\* search_eztv(query)
call_search_eztv(cache, query, net) ==
  /\ prog = "functions" /\ fn_call = NoFnCall
  /\ fn_call' = [fn |-> "search_eztv",
                 args |-> [cache |-> cache, query |-> query, net |-> net],
                 ret |-> SE_search_eztv(cache, query, net)]
  /\ fn_frame

MirrorCalls ==
  \/ \E cached_domain \in YtsCached, first \in YtsLive, second \in YtsLive :
       call_find_working_domain(cached_domain, first, second)
  \/ \E max_retries \in 0..SY_DEFAULT_MAX_RETRIES,
        answers \in [1..SY_DEFAULT_MAX_RETRIES -> {YtsPage, Unavailable, HttpError}] :
       call_fetch_with_retry("https://yts.lt/browse-movies", max_retries, answers)
  \/ \E cache \in EzCaches, query \in {<<>>, EzQuery}, net \in EzNets :
       call_search_eztv(cache, query, net)

\* ------------------------------------------------------------------------
\* The lifetime of a cached search and of a cached listing: lib/termflix/scripts/catalog.py,
\* bin/scripts/fetch_multi_source_catalog.py, bin/scripts/tpb_client.py
\* ------------------------------------------------------------------------
\* catalog.py: "1 hour for catalog results"
CATALOG_CACHE_TTL == 3600

\* catalog.py: "30 min for search results"; no function of the module refers to it
SEARCH_CACHE_TTL == 1800

\* get_enriched_catalog: _cache_valid(cache_file, CATALOG_CACHE_TTL), then _load_cache and
\* "if cached_data:"
CA_cached(file, now, ttl) ==
  IF file.exists /\ now - file.mtime < ttl /\ JsonLoads(file.text).ok
     /\ JsonLoads(file.text).data # <<>>
  THEN Hit(JsonLoads(file.text).data, file)
  ELSE Miss(file)

CacheClients == {"catalog.py", "fetch_multi_source_catalog.py", "tpb_client.py"}

\* whether the operation of the kind writes its result to the cache: search_tpb, search_yts
\* and fetch_yts_movies of fetch_multi_source_catalog.py call set_cache; TPBClient.search
\* passes use_cache=False; search_yts and search_tpb of catalog.py touch no cache
CL_stores(client, kind) == client = "fetch_multi_source_catalog.py" \/ kind = "listing"

\* the cache lookup the operation of the kind makes on the file of its key
CL_lookup(client, kind, file, now) ==
  CASE client = "fetch_multi_source_catalog.py" -> CH_get_cached_parsed(file, now, FM_CACHE_TTL)
    [] client = "tpb_client.py" ->
         IF kind = "listing" THEN CH_read_cache(file, now, TPB_CACHE_TTL) ELSE Miss(file)
    [] client = "catalog.py" ->
         IF kind = "listing" THEN CA_cached(file, now, CATALOG_CACHE_TTL) ELSE Miss(file)

\* the operation of the kind ran at time stored with an answer from the network, and runs
\* again at time now: "hit" when the second run is served from the cache
CL_second_run(client, kind, stored, now) ==
  CL_lookup(client, kind,
            IF CL_stores(client, kind)
            THEN [exists |-> TRUE, mtime |-> stored, text |-> JsonDumpsList(<<"x">>)]
            ELSE NoFile,
            now).kind

\* the times of the first run, in seconds
MaxStored == 4

\* the ages of the entry at the second run: each TTL, and the second before it
ProbeAges ==
  {0, TPB_CACHE_TTL - 1, TPB_CACHE_TTL, SEARCH_CACHE_TTL - 1, SEARCH_CACHE_TTL,
   CATALOG_CACHE_TTL - 1, CATALOG_CACHE_TTL, FM_CACHE_TTL - 1, FM_CACHE_TTL}

\* a client runs a search and a listing at time stored and both again at time now
call_twice(client, stored, now) ==
  /\ prog = "functions" /\ fn_call = NoFnCall
  /\ fn_call' = [fn |-> "run_twice",
                 args |-> [client |-> client, stored |-> stored, now |-> now],
                 ret |-> [search |-> CL_second_run(client, "search", stored, now),
                          listing |-> CL_second_run(client, "listing", stored, now)]]
  /\ fn_frame

\* ------------------------------------------------------------------------
\* Specifications
\* ------------------------------------------------------------------------
\* group_results.py not started, for the runs of the other programs
GrIdle ==
  /\ gr_variant = "lib"
  /\ gr_query = <<>>
  /\ gr_results = <<>>
  /\ gr_seen = {}
  /\ gr_groups = <<>>
  /\ gr_pc = "first_pass"
  /\ gr_entries = <<>>
  /\ gr_out = <<>>

\* no TPB client, no deep research and no call of a function on its own in this process
ClientIdle == TpbInit /\ DrStart /\ fn_call = NoFnCall /\ ChIdle

\* a run of UnifiedAggregator
InitAgg == prog = "unified_aggregator" /\ AggInit /\ GrIdle /\ CatIdle /\ ClientIdle

SpecAgg == InitAgg /\ [][AggNext]_vars

\* a run of group_results.py
InitGroup == prog = "group_results" /\ AggInit /\ GrInit /\ CatIdle /\ ClientIdle

SpecGroup == InitGroup /\ [][GrNext]_vars

\* a run of either deduplicating program
InitDedup ==
  \/ prog = "unified_aggregator" /\ AggInit /\ GrIdle /\ CatIdle /\ ClientIdle
  \/ prog = "group_results" /\ AggInit /\ GrInit /\ CatIdle /\ ClientIdle

NextDedup == AggNext \/ GrNext

SpecDedup == InitDedup /\ [][NextDedup]_vars

\* a catalog call of either catalog script
InitCatalog == prog = "catalog" /\ AggInit /\ GrIdle /\ CatInit /\ ClientIdle

SpecCatalog == InitCatalog /\ [][CatNext]_vars

\* calls on one TPBClient
InitClient == prog = "tpb_client" /\ AggInit /\ GrIdle /\ CatIdle /\ ClientIdle

SpecClient == InitClient /\ [][TpbNext]_vars

\* a catalog call of either catalog script, or a call of deep_research_movie
InitPartial ==
  \/ prog = "catalog" /\ AggInit /\ GrIdle /\ CatInit /\ ClientIdle
  \/ prog = "deep_research" /\ DrInit /\ GrIdle /\ CatIdle /\ TpbInit /\ fn_call = NoFnCall
     /\ ChIdle

NextPartial == CatNext \/ DrNext

SpecPartial == InitPartial /\ [][NextPartial]_vars

\* lines for group_results.py that carry the all-zero hash of the "no results" answer, and
\* one ordinary line
SentinelLines ==
  { Join(<< <<"T","P","B">>, <<"H","e","a","t"," ","1","9","9","5">>, Magnet(ZeroHash), <<"7","2","0","p">>, <<"0"," ","B">>, <<"0">> >>, "|"),
    Join(<< <<"T","P","B">>, <<"N","o"," ","r","e","s","u","l","t","s"," ","r","e","t","u","r","n","e","d">>, Magnet(ZeroHash), <<"7","2","0","p">>, <<"0"," ","B">>, <<"0">> >>, "|"),
    Join(<< <<"T","P","B">>, <<"H","e","a","t"," ","1","9","9","5">>, Magnet(H2), <<"7","2","0","p">>, <<"2","G","B">>, <<"7">> >>, "|") }

GrSentinelNext ==
  \/ \E l \in SentinelLines : gr_line(l)
  \/ gr_second_pass

\* a run of one of the three programs that meet the all-zero hash: add_torrent calls,
\* calls on a TPBClient, group_results.py
InitSentinel ==
  \/ prog = "unified_aggregator" /\ AggInit /\ GrIdle /\ CatIdle /\ ClientIdle
  \/ prog = "tpb_client" /\ AggInit /\ GrIdle /\ CatIdle /\ ClientIdle
  \/ prog = "group_results" /\ AggInit /\ GrInit /\ CatIdle /\ ClientIdle

NextSentinel == AggNext \/ TpbNext \/ GrSentinelNext

SpecSentinel == InitSentinel /\ [][NextSentinel]_vars

\* a batch handed to search_tpb or to add_tpb_results, or a run of group_results.py on
\* lines with malformed ones among them
InitRecords ==
  \/ prog = "functions" /\ AggInit /\ GrIdle /\ CatIdle /\ ClientIdle
  \/ prog = "group_results" /\ AggInit /\ GrInit /\ CatIdle /\ ClientIdle

NextRecords == FnRecordsNext \/ GrRecordsNext

SpecRecords == InitRecords /\ [][NextRecords]_vars

\* a fetching task and a reading task on one key of one of the caches
InitCache == prog = "cache" /\ AggInit /\ GrIdle /\ CatIdle /\ TpbInit /\ DrStart
             /\ fn_call = NoFnCall /\ ChInit

SpecCache == InitCache /\ [][ChNext]_vars

\* the catalog calls with parallel fetching, the YTS listing holding movies of one year
OrderNext ==
  \/ \E answers \in SameYearListAnswers : cat_fetch_list(answers)
  \/ \E attempts \in Top100Attempts : cat_fallback(attempts)
  \/ \E i \in cat_pending, tpb_attempts \in TpbSearchAttempts,
        yts_answers \in YtsSearchAnswers : cat_aggregate(i, tpb_attempts, yts_answers)
  \/ cat_return
  \/ \E attempts \in Top100Attempts : cat_top100(attempts)
  \/ \E i \in cat_pending, tpb_attempt \in TpbCurlAttempts,
        yts_answers \in YtsSearchAnswers : cat_enrich(i, tpb_attempt, yts_answers)
  \/ cat_submit_pages
  \/ \E p \in cat_pending, answers \in SameYearListAnswers,
        tpb_attempts \in [1..2 -> TpbCurlAttempts] : cat_page(p, answers, tpb_attempts)
  \/ cat_timeout
  \/ cat_convert

InitOrder ==
  /\ prog = "catalog" /\ AggInit /\ GrIdle /\ ClientIdle
  /\ cat_variant \in {"bin", "python"} /\ cat_parallel = TRUE /\ cat_cache = ColdCache
  /\ CatStart

SpecOrder == InitOrder /\ [][OrderNext]_vars

\* add_torrent calls on one aggregator, or one call of fetch_enriched_catalog whose YTS
\* pages may list the same movie
EnrichNext ==
  \/ AggNext
  \/ \E attempts \in Top100Attempts : cat_top100(attempts)
  \/ \E i \in cat_pending, tpb_attempt \in TpbCurlAttempts,
        yts_answers \in YtsSearchAnswers : cat_enrich(i, tpb_attempt, yts_answers)
  \/ cat_submit_pages
  \/ \E p \in cat_pending, answers \in SameYearListAnswers,
        tpb_attempts \in [1..2 -> TpbCurlAttempts] : cat_page(p, answers, tpb_attempts)
  \/ cat_timeout
  \/ cat_convert

InitEnrich ==
  \/ InitAgg
  \/ InitOrder /\ cat_variant = "python"

SpecEnrich == InitEnrich /\ [][EnrichNext]_vars

InitSelfTest == prog = "self_test" /\ AggInit /\ GrIdle /\ CatIdle /\ ClientIdle

SpecSelfTest == InitSelfTest /\ [][SelfTestNext]_vars

\* one call of fetch_enriched_catalog of scripts/python, for movies or for shows
EnrichedNext ==
  \/ \E attempts \in Top100Attempts : cat_top100(attempts)
  \/ \E i \in cat_pending, tpb_attempt \in TpbCurlAttempts,
        yts_answers \in YtsSearchAnswers : cat_enrich(i, tpb_attempt, yts_answers)
  \/ cat_submit_pages
  \/ \E p \in cat_pending, answers \in YtsListAnswers,
        tpb_attempts \in [1..2 -> TpbCurlAttempts] : cat_page(p, answers, tpb_attempts)
  \/ cat_timeout
  \/ cat_convert
  \/ TvNext

InitEnriched ==
  /\ prog = "catalog" /\ AggInit /\ GrIdle /\ ClientIdle
  /\ \/ cat_variant = "python" /\ cat_parallel = TRUE /\ cat_cache = ColdCache /\ CatStart
     \/ TvInit

SpecEnriched == InitEnriched /\ [][EnrichedNext]_vars

\* calls on a TPBClient, or one call of find_working_domain, fetch_with_retry or search_eztv
InitMirrors ==
  /\ prog \in {"tpb_client", "functions"}
  /\ AggInit /\ GrIdle /\ CatIdle /\ ClientIdle

MirrorsNext == TpbNext \/ MirrorCalls

SpecMirrors == InitMirrors /\ [][MirrorsNext]_vars

\* input lines of group_results.py: a release whose name is tags only and that shares its
\* hash with the next line, three releases of one title with the years 1990, 1990 and
\* 2012, one of that title without a year, and one whose link carries no info hash, with
\* the name, size and source of the second line
GroupingLines ==
  { Join(<< <<"T","P","B">>, <<"T","o","t","a","l"," ","R","e","c","a","l","l"," ","1","9","9","0">>, <<"m","a","g","n","e","t",":","?","x","t","=","u","r","n",":","s","h","a","1",":","x">>, <<"1","0","8","0","p">>, <<"1","G","B">>, <<"8">> >>, "|") } \cup
  { Join(<< <<"T","P","B">>, <<"1","0","8","0","p"," ","B","l","u","R","a","y">>, Magnet(H4), <<"1","0","8","0","p">>, <<"1","G","B">>, <<"5">> >>, "|"),
    Join(<< <<"T","P","B">>, <<"T","o","t","a","l"," ","R","e","c","a","l","l"," ","1","9","9","0">>, Magnet(H4), <<"1","0","8","0","p">>, <<"1","G","B">>, <<"8">> >>, "|"),
    Join(<< <<"Y","T","S">>, <<"T","o","t","a","l"," ","R","e","c","a","l","l"," ","(","1","9","9","0",")">>, Magnet(H1), <<"1","0","8","0","p">>, <<"1","G","B">>, <<"5","0">>, <<"p","1">> >>, "|"),
    Join(<< <<"T","P","B">>, <<"T","o","t","a","l"," ","R","e","c","a","l","l"," ","2","0","1","2">>, Magnet(H2), <<"7","2","0","p">>, <<"2","G","B">>, <<"7">> >>, "|"),
    Join(<< <<"T","P","B">>, <<"T","o","t","a","l"," ","R","e","c","a","l","l">>, Magnet(H3), <<"4","8","0","p">>, <<"1","G","B">>, <<"5">> >>, "|") }

GroupingNext ==
  \/ \E l \in GroupingLines : gr_line(l)
  \/ gr_second_pass

\* a run of group_results.py on these lines
SpecGrouping == InitGroup /\ [][GroupingNext]_vars

\* the steps of bin/scripts fetch_multi_source_catalog
BinCatalogNext ==
  \/ \E answers \in YtsListAnswers : cat_fetch_list(answers)
  \/ \E attempts \in Top100Attempts : cat_fallback(attempts)
  \/ \E i \in cat_pending, tpb_attempts \in TpbSearchAttempts,
        yts_answers \in YtsSearchAnswers : cat_aggregate(i, tpb_attempts, yts_answers)
  \/ cat_return

\* the fetches that keep a cache: calls on a TPBClient, a call of search_eztv, or a call of
\* bin/scripts fetch_multi_source_catalog
InitFetches ==
  \/ prog \in {"tpb_client", "functions"} /\ AggInit /\ GrIdle /\ CatIdle /\ ClientIdle
  \/ /\ prog = "catalog" /\ AggInit /\ GrIdle /\ ClientIdle
     /\ cat_variant = "bin" /\ cat_parallel \in BOOLEAN /\ cat_cache \in {ColdCache, WarmCache}
     /\ CatStart

FetchesNext ==
  \/ TpbNext
  \/ \E cache \in EzCaches, query \in {<<>>, EzQuery}, net \in EzNets :
       call_search_eztv(cache, query, net)
  \/ BinCatalogNext

SpecFetches == InitFetches /\ [][FetchesNext]_vars

\* a search and a listing of one client, run twice
InitTtl == prog = "functions" /\ AggInit /\ GrIdle /\ CatIdle /\ ClientIdle

TtlNext ==
  \E client \in CacheClients, stored \in 0..MaxStored, age \in ProbeAges :
    call_twice(client, stored, stored + age)

SpecTtl == InitTtl /\ [][TtlNext]_vars

\* ------------------------------------------------------------------------
\* Properties: deduplication (C1, C2)
\* ------------------------------------------------------------------------
\* every torrent the aggregator keeps, over all movies
RECURSIVE KeptTorrents(_)
KeptTorrents(ms) == IF ms = <<>> THEN <<>> ELSE Head(ms).torrents \o KeptTorrents(Tail(ms))

\* the magnets of one output line of group_results.py
LineMagnets(line) ==
  IF Split(line, "|")[1] = CombinedTag
  THEN Split(Split(line, "|")[7], "^")
  ELSE <<Split(line, "|")[3]>>

RECURSIVE OutMagnets(_)
OutMagnets(out) == IF out = <<>> THEN <<>> ELSE LineMagnets(Head(out)) \o OutMagnets(Tail(out))

\* the identity main gives an input line that has its six fields
LineIdentity(l) ==
  GR_identity(Split(Strip(l), "|")[1], Split(Strip(l), "|")[2], Split(Strip(l), "|")[3],
              Split(Strip(l), "|")[5])

\* C1: no two torrents kept by the aggregator have the same info hash compared without
\* regard to letter case, and no two magnets written by lib group_results.py carry the
\* same canonical info hash
C1_NoTwoKeptShareHash ==
  /\ \A i, j \in 1..Len(KeptTorrents(movies)) :
       i # j => StrLower(KeptTorrents(movies)[i].hash) # StrLower(KeptTorrents(movies)[j].hash)
  /\ gr_variant = "lib" =>
       \A i, j \in 1..Len(OutMagnets(gr_out)) :
         i # j /\ GR_extract_info_hash(OutMagnets(gr_out)[i]) # <<>>
           => GR_extract_info_hash(OutMagnets(gr_out)[i])
                # GR_extract_info_hash(OutMagnets(gr_out)[j])

\* C1 witness: group_results.py has read the same torrent as lower-case hex, as upper-case
\* hex and as base32, and has written exactly one of the three
C1_Witness ==
  /\ prog = "group_results" /\ gr_variant = "lib" /\ gr_pc = "done"
  /\ Len(gr_results) = 3
  /\ \A k \in 1..3 : LineIdentity(gr_results[k]) = H1
  /\ \A k, m \in 1..3 : k # m => Split(gr_results[k], "|")[3] # Split(gr_results[m], "|")[3]
  /\ Len(OutMagnets(gr_out)) = 1

\* add_torrent was just called with a hash that was accepted before, in any letter case
AggDuplicateCall ==
  /\ n_adds' = n_adds + 1
  /\ StrLower(agg_call'.args.info_hash) \in {StrLower(h) : h \in seen_hashes}

\* lib main has just read a line whose identity was seen before
GrDuplicateLine ==
  /\ gr_variant = "lib"
  /\ Len(gr_results') = Len(gr_results) + 1
  /\ Len(Split(Strip(gr_results'[Len(gr_results')]), "|")) >= 6
  /\ LineIdentity(gr_results'[Len(gr_results')]) \in gr_seen

\* C2: a call of add_torrent with a hash accepted before leaves movies (torrents, sources,
\* poster, imdb, rating) and seen_hashes as they were, and so does a line of a seen
\* identity for the groups and seen hashes of lib group_results.py
C2_DuplicateChangesNothing ==
  [][/\ AggDuplicateCall => UNCHANGED <<movies, seen_hashes>>
     /\ GrDuplicateLine => UNCHANGED <<gr_seen, gr_groups>>]_vars

\* C2 witness: the second add_torrent repeated the first one's hash in another letter case,
\* from another source and with metadata the first lacked, and one torrent is kept
C2_Witness ==
  /\ prog = "unified_aggregator"
  /\ n_adds = 2 /\ agg_call.op = "add_torrent"
  /\ Len(movies) = 1 /\ Len(movies[1].torrents) = 1
  /\ movies[1].torrents[1].hash # agg_call.args.info_hash
  /\ StrLower(movies[1].torrents[1].hash) = StrLower(agg_call.args.info_hash)
  /\ agg_call.args.source \notin SourceElems(movies[1].sources)
  /\ agg_call.args.poster # "" /\ movies[1].poster = ""

\* ------------------------------------------------------------------------
\* Properties: grouping by title and year (C3, C4), list alignment (C7)
\* ------------------------------------------------------------------------
\* the normalized title the running variant gives a kept record
ItemTitle(it) ==
  IF gr_variant = "lib" THEN GR_normalize_title(it.name, it.year)
  ELSE GRB_normalize_title(it.name, it.year)

\* <<release number, record>> for every record of every release written
Emitted ==
  UNION {{<<k, gr_entries[k].items[i]>> : i \in 1..Len(gr_entries[k].items)} :
           k \in 1..Len(gr_entries)}

\* the distinct known years among the written records of one normalized title
YearsOf(title, T) == {e[2].year : e \in {x \in Emitted : title[x] = T /\ x[2].year # <<>>}}

\* C3: among the records of one normalized title with two or more distinct known years,
\* two records are written in the same release exactly when they carry the same year or
\* both carry none: one release per known year, at most one for the records without a
\* year, no release with two known years or with a known year and a record without one
C3_YearSplit ==
  gr_pc = "done" =>
    LET title == [e \in Emitted |-> ItemTitle(e[2])]
    IN \A a, b \in Emitted :
         title[a] = title[b] /\ Cardinality(YearsOf(title, title[a])) >= 2
           => (a[1] = b[1] <=> a[2].year = b[2].year)

\* C3 witness: the bin variant has read records of one title with years 1990, 2012 and
\* none, and has written three releases
C3_Witness ==
  /\ prog = "group_results" /\ gr_variant = "bin" /\ gr_pc = "done"
  /\ Len(gr_groups) = 1 /\ Len(gr_groups[1].items) = 3
  /\ {gr_groups[1].items[i].year : i \in 1..3} = {<<"1","9","9","0">>, <<"2","0","1","2">>, <<>>}
  /\ Len(gr_entries) = 3

\* C4: the records of one normalized title with exactly one distinct known year,
\* those without a year included, are written as one release tagged with that year
C4_SingleYearMerged ==
  gr_pc = "done" =>
    LET title == [e \in Emitted |-> ItemTitle(e[2])]
    IN \A a, b \in Emitted :
         title[a] = title[b] /\ Cardinality(YearsOf(title, title[a])) = 1
           => /\ a[1] = b[1]
              /\ gr_entries[a[1]].preferred_year \in YearsOf(title, title[a])

\* the fields of a COMBINED line
CombinedFields(line) == Split(line, "|")

\* C7: in every COMBINED line of lib group_results.py the sources, qualities, seeds, sizes
\* and magnets fields split on "^" into lists of one length, the stated count
C7_ListsAligned ==
  gr_variant = "lib" =>
    \A n \in 1..Len(gr_out) :
      CombinedFields(gr_out[n])[1] = CombinedTag =>
        \A f \in 3..7 :
          Len(Split(CombinedFields(gr_out[n])[f], "^"))
            = StrToNat(CombinedFields(gr_out[n])[10])

\* ------------------------------------------------------------------------
\* Properties: order of the torrents returned by finalize (C5)
\* ------------------------------------------------------------------------
\* the quality tiers, best first
TierOrder == <<"4K", "1080p", "720p", "480p", "CAM", "TS", "TC", "Unknown">>

TierOf(q) == CHOOSE n \in 1..Len(TierOrder) : TierOrder[n] = q

\* when add_torrent accepted the torrent: its place in the history of accepted hashes
AddedAt(t) == CHOOSE n \in 1..Len(add_order) : add_order[n] = StrLower(t.hash)

\* C5: in what finalize returns, every movie's torrents are in ascending tier, within a
\* tier in descending seeders, and within equal tier and seeders in the order of their
\* addition
C5_FinalizeOrder ==
  agg_call.op = "finalize" =>
    \A m \in 1..Len(agg_ret) :
      \A k \in 1..(Len(agg_ret[m].torrents) - 1) :
        LET a == agg_ret[m].torrents[k]
            b == agg_ret[m].torrents[k + 1]
        IN /\ TierOf(a.quality) <= TierOf(b.quality)
           /\ TierOf(a.quality) = TierOf(b.quality) => a.seeders >= b.seeders
           /\ TierOf(a.quality) = TierOf(b.quality) /\ a.seeders = b.seeders
                => AddedAt(a) < AddedAt(b)

\* C5 witness: finalize has moved a 4K torrent with fewer seeders, added second, ahead of
\* the 720p torrent added first
C5_Witness ==
  /\ agg_call.op = "finalize"
  /\ Len(agg_ret) = 1 /\ Len(agg_ret[1].torrents) = 2
  /\ AddedAt(agg_ret[1].torrents[1]) = 2
  /\ agg_ret[1].torrents[1].quality = "4K" /\ agg_ret[1].torrents[2].quality = "720p"
  /\ agg_ret[1].torrents[1].seeders < agg_ret[1].torrents[2].seeders

\* ------------------------------------------------------------------------
\* Properties: the COMBINED lines of the catalog calls (C6)
\* ------------------------------------------------------------------------
\* the quality labels of the ranking table of finalize, best first
LabelOrder == <<<<"4","K">>, <<"1","0","8","0","p">>, <<"7","2","0","p">>, <<"4","8","0","p">>, <<"C","A","M">>, <<"T","S">>, <<"T","C">>, Unknown>>

\* quality_order.get(label, 99)
LabelTier(q) ==
  IF \E n \in 1..Len(LabelOrder) : LabelOrder[n] = q
  THEN (CHOOSE n \in 1..Len(LabelOrder) : LabelOrder[n] = q) - 1
  ELSE 99

\* the qualities and the seeds of a COMBINED line of a catalog call
LineQualities(line) == Split(CombinedFields(line)[4], "^")

LineSeeds(line) == Split(CombinedFields(line)[5], "^")

\* C6: in every COMBINED line of aggregate_movie and of fetch_enriched_catalog the torrents
\* stand in ascending quality tier and, within a tier, in descending seeds
C6_TierThenSeeds ==
  \A n \in 1..Len(cat_results) :
    \A i \in 1..(Len(LineQualities(cat_results[n])) - 1) :
      LET tier_i == LabelTier(LineQualities(cat_results[n])[i])
          tier_next == LabelTier(LineQualities(cat_results[n])[i + 1])
      IN /\ tier_i <= tier_next
         /\ tier_i = tier_next =>
              StrToNat(LineSeeds(cat_results[n])[i]) >= StrToNat(LineSeeds(cat_results[n])[i + 1])

\* ------------------------------------------------------------------------
\* Properties: failures of the sources (C8, C9, C10)
\* ------------------------------------------------------------------------
\* C8: no call of TPBClient.search or TPBClient.get_top100 raises to its caller; with every
\* attempt on every domain failed it returns an empty list
C8_ClientNeverThrows ==
  tpb_call.op \in {"search", "get_top100"} => tpb_call.ret.kind # "exception"

\* C9: a catalog call none of whose fetches got a response, and that read nothing from the
\* cache, ends by returning the empty list
C9_OutageReturnsEmpty ==
  (cat_pc \in {"returned", "raised"} /\ cat_net = {"failed"}) =>
    (cat_ret.kind = "list" /\ cat_ret.value = <<>>)

\* the hashes of the magnets of a COMBINED line of a catalog call, in lower case
LineHashes(line) ==
  {StrLower(SubSeq(mg, Len(MagnetPrefix) + 1, Len(mg))) :
     mg \in Range(Split(CombinedFields(line)[7], "^"))}

\* an aggregate_movie task whose TPB search got no response, for a movie with a title and
\* with torrents from YTS, produced a line that lists every one of those torrents
AggregateKeepsPrimary ==
  \A n \in 1..Len(cat_log) :
    (/\ cat_variant = "bin"
     /\ cat_log[n].tpb_net = {"failed"}
     /\ cat_log[n].movie.title # <<>>
     /\ FM_parse_yts_torrents(cat_log[n].movie) # <<>>) =>
       /\ cat_log[n].result # NoLine
       /\ \A t \in Range(FM_parse_yts_torrents(cat_log[n].movie)) :
            t.hash \in LineHashes(cat_log[n].result)

\* a step of deep_research_movie that ran a query
IsQueryStep == prog = "deep_research" /\ dr_pc = "queries" /\ dr_k' = dr_k + 1

\* a query whose try block raised keeps every hash and every torrent collected before it,
\* in place, and leaves deep_research_movie in its loop
RaisingQueryKeepsAll ==
  (IsQueryStep /\ dr_raised') =>
    /\ seen_hashes \subseteq seen_hashes'
    /\ Len(movies') >= Len(movies)
    /\ \A m \in 1..Len(movies) :
         /\ movies'[m].key = movies[m].key
         /\ SubSeq(movies'[m].torrents, 1, Len(movies[m].torrents)) = movies[m].torrents
    /\ dr_pc' = "queries"

\* deep_research_movie returns after the base query and every one of QUALITY_SEARCH_TERMS
\* has been run
AllQueriesRun == dr_pc = "returned" => dr_k = Len(QUALITY_SEARCH_TERMS) + 2

C11_ZeroHashDiscarded ==
  /\ \A i \in 1..Len(KeptTorrents(movies)) : KeptTorrents(movies)[i].hash # ZeroHash
  /\ ZeroHash \notin seen_hashes
  /\ (tpb_call.op = "search" /\ tpb_call.ret.kind = "list")
       => \A i \in 1..Len(tpb_call.ret.value) : tpb_call.ret.value[i].info_hash # ZeroHash
  /\ gr_variant = "lib"
       => /\ ZeroHash \notin gr_seen
          /\ \A i \in 1..Len(OutMagnets(gr_out)) :
               GR_extract_info_hash(OutMagnets(gr_out)[i]) # ZeroHash

\* ------------------------------------------------------------------------
\* Properties: malformed records (C12)
\* ------------------------------------------------------------------------
\* an item search_tpb and add_tpb_results can use: a hash that is not the all-zero one,
\* and numbers in the seeders and size fields
WellFormedItem(item) ==
  /\ item.info_hash # <<>> /\ item.info_hash # ZeroHash
  /\ IsInt(item.seeders) /\ IsInt(item.size)

\* the canonical hashes of the magnets group_results.py wrote
OutHashes == {GR_extract_info_hash(m) : m \in Range(OutMagnets(gr_out))}

\* C12: a malformed record costs only itself: search_tpb returns a torrent for every
\* well-formed item of the answer, add_tpb_results accepts every well-formed item of its
\* batch, and lib group_results.py writes the magnet of every well-formed line it read
C12_OnlyMalformedSkipped ==
  /\ fn_call.fn = "search_tpb" =>
       \A i \in 1..Len(fn_call.args) :
         WellFormedItem(fn_call.args[i]) =>
           \E j \in 1..Len(fn_call.ret) :
             fn_call.ret[j].hash = StrLower(fn_call.args[i].info_hash)
  /\ fn_call.fn = "add_tpb_results" =>
       \A i \in 1..Len(fn_call.args) :
         WellFormedItem(fn_call.args[i]) =>
           StrLower(fn_call.args[i].info_hash) \in fn_call.ret.seen
  /\ (prog = "group_results" /\ gr_variant = "lib" /\ gr_pc \in {"done", "crashed"}) =>
       \A k \in 1..Len(gr_results) :
         gr_results[k] \in GoodLines => LineIdentity(gr_results[k]) \in OutHashes

\* ------------------------------------------------------------------------
\* Properties: the cache files (C13, C14, C20)
\* ------------------------------------------------------------------------
\* the text is a whole entry of the cache, as its set wrote it
WholeEntry(impl, text) == IF impl = "ResponseCache" THEN IsJsonEntry(text) ELSE IsJsonList(text)

\* C13: a read of a whole entry returns its data if and only if the age of the entry,
\* now - storedAt, is below the time to live: an entry exactly ttl old is a miss
C13_FreshIffHit ==
  (ch_read.kind # "none" /\ WholeEntry(ch_impl, ch_read.text))
    => (ch_read.kind = "hit" <=> ch_read.age < CH_ttl(ch_impl))

\* C14: a fetch whose cache write failed, at open or in the middle of the text, still
\* returns the data it fetched, and TPBClient has recorded the domain that answered
C14_WriteBestEffort ==
  ch_w.pc = "returned" =>
    /\ ch_w.ret = Returned(ch_w.data)
    /\ ch_impl = "TPBClient" => tpb_working_domain = ch_w.domain

\* C14 witness: a fetch of TPBClient returned its data after its write broke off, the file
\* left cut short
C14_Witness ==
  /\ prog = "cache" /\ ch_impl = "TPBClient"
  /\ ch_w.pc = "returned" /\ ch_w.failed
  /\ ch_file.exists /\ ~WholeEntry(ch_impl, ch_file.text)
  /\ ch_w.ret = Returned(ch_w.data) /\ tpb_working_domain = ch_w.domain

\* C20: whatever the point of a write a read falls on, a read that returns data returns the
\* whole data of a fetch made so far, read from a whole entry; every other read is a miss
C20_NoHalfWrittenRead ==
  ch_read.kind = "hit" =>
    /\ WholeEntry(ch_impl, ch_read.text)
    /\ \E n \in 1..ch_fetches : ch_read.data = CH_data(n)

\* C20 witness: a read fell between two writes of the text, with part of the entry in the
\* file, and was a miss
C20_Witness ==
  /\ prog = "cache" /\ ch_w.pc = "write" /\ ch_w.k >= 2 /\ ch_w.k < Len(ch_w.doc)
  /\ ch_read.text = ch_file.text /\ ch_read.text = SubSeq(ch_w.doc, 1, ch_w.k)
  /\ ch_read.kind = "miss"

\* ------------------------------------------------------------------------
\* Properties: the catalog and the completion order of its tasks (C15)
\* ------------------------------------------------------------------------
\* the tasks of the log that belong to a phase, in the order they were submitted in
InSubmissionOrder(log) == StableSortBy(log, LAMBDA a, b : a.task < b.task)

RECURSIVE LinesOf(_)
\* what the loop over the futures of fetch_multi_source_catalog appends for these tasks
LinesOf(log) ==
  IF log = <<>> THEN <<>>
  ELSE (IF Head(log).result # NoLine THEN <<Head(log).result>> ELSE <<>>)
         \o LinesOf(Tail(log))

RECURSIVE MergedPhase1(_, _)
MergedPhase1(all_movies, log) ==
  IF log = <<>> THEN all_movies
  ELSE With(FE_merge_enriched(all_movies, Head(log).enriched), LAMBDA merged :
         MergedPhase1(merged, Tail(log)))

RECURSIVE MergedPhase2(_, _)
MergedPhase2(all_movies, log) ==
  IF log = <<>> THEN all_movies
  ELSE With(FE_merge_page(all_movies, Head(log).enriched), LAMBDA merged :
         MergedPhase2(merged, Tail(log)))

\* what the call returns when the same tasks, each with the result it had in this run,
\* complete in the order they were submitted in
SubmissionOrderResult ==
  IF cat_variant = "bin"
  THEN FM_sort_results(LinesOf(InSubmissionOrder(cat_log)))
  ELSE With(MergedPhase1(<<>>, InSubmissionOrder(SelectSeq(cat_log, LAMBDA e : e.phase = 1))),
         LAMBDA phase1 :
           With(MergedPhase2(phase1,
                  InSubmissionOrder(SelectSeq(cat_log, LAMBDA e : e.phase = 2))),
             LAMBDA all_movies : FE_sort_results(FE_convert(all_movies))))

\* C15: with parallel fetching, the lines a catalog call returns from its tasks, and their
\* order, are those it returns when the tasks complete in submission order: the result
\* does not depend on the completion order
C15_OrderIndependent ==
  (prog = "catalog" /\ cat_parallel /\ cat_pc = "returned" /\ cat_log # <<>>) =>
    cat_ret.value = SubmissionOrderResult

\* ------------------------------------------------------------------------
\* Properties: the enrichment fields of a release (C16)
\* ------------------------------------------------------------------------
\* a field of add_torrent that holds a value: neither empty nor the placeholder
HoldsValue(v) == v \notin {"", "N/A"}

\* add_torrent changes no imdb_id, poster or rating that holds a value
AddTorrentFirstWins ==
  prog = "unified_aggregator" =>
    \A n \in 1..Len(movies) :
      LET i == MovieIndex(movies', movies[n].key)
      IN i # 0 =>
           /\ HoldsValue(movies[n].imdb_id) => movies'[i].imdb_id = movies[n].imdb_id
           /\ HoldsValue(movies[n].poster) => movies'[i].poster = movies[n].poster
           /\ HoldsValue(movies[n].rating) => movies'[i].rating = movies[n].rating

\* the metadata merge of fetch_enriched_catalog changes no poster and no rating that holds
\* a value
MergeFirstWins ==
  (prog = "catalog" /\ cat_variant = "python") =>
    \A n \in 1..Len(cat_all_movies) :
      LET i == FE_index(cat_all_movies', cat_all_movies[n].key)
      IN i # 0 =>
           /\ cat_all_movies[n].movie.poster \notin {<<>>, NA} =>
                cat_all_movies'[i].movie.poster = cat_all_movies[n].movie.poster
           /\ cat_all_movies[n].movie.rating # 0 =>
                cat_all_movies'[i].movie.rating = cat_all_movies[n].movie.rating

\* C16: the poster, external id and rating of a release are first-non-empty-wins: once a
\* release holds a value for one of them, no later record changes it and no later empty
\* value replaces it, in add_torrent and in the metadata merge of fetch_enriched_catalog
C16_FirstNonEmptyWins == [][AddTorrentFirstWins /\ MergeFirstWins]_vars

HashesOnce(lines) ==
  \A i, j \in 1..Len(OutMagnets(lines)) :
    i # j => StrLower(OutMagnets(lines)[i]) # StrLower(OutMagnets(lines)[j])

\* C18: in the list fetch_enriched_catalog returns, for movies and for shows, whatever the
\* order its tasks completed in, each info hash appears once: not twice in one entry and
\* not in two entries
C18_HashOnceInOutput ==
  (prog = "catalog" /\ cat_variant \in {"python", "shows"} /\ cat_ret.kind = "list") =>
    HashesOnce(cat_ret.value)

\* ------------------------------------------------------------------------
\* Properties: a batch of fetch tasks that runs out of time (C19)
\* ------------------------------------------------------------------------
\* what the call returns from the records collected from the tasks that have completed
FromCompletedTasks ==
  IF cat_variant = "python" THEN FE_sort_results(FE_convert(cat_all_movies))
  ELSE FE_group_shows_by_series(cat_movies, FE_SHOWS_LIMIT).results

\* C19: when the time of a batch is up with a task still running, fetch_enriched_catalog,
\* for movies and for shows, returns the entries built from the tasks that completed and
\* from the records collected before: it raises nothing and the result is not emptied
C19_TimeoutNotFatal ==
  (prog = "catalog" /\ cat_variant \in {"python", "shows"}
     /\ cat_pc \in {"raised", "timed_out"}) =>
    cat_ret = Returned(FromCompletedTasks)

\* ------------------------------------------------------------------------
\* Properties: the order of the mirrors (C21)
\* ------------------------------------------------------------------------
\* the requests go to one domain after the other: the attempts on a domain are numbered
\* from 0 without a gap, and a request to another domain follows attempt last of the
\* domain before it and is attempt 0 of its own
OneRound(requests, last) ==
  \A i \in 1..(Len(requests) - 1) :
    \/ /\ requests[i + 1].domain = requests[i].domain
       /\ requests[i + 1].attempt = requests[i].attempt + 1
    \/ /\ requests[i + 1].domain # requests[i].domain
       /\ requests[i].attempt = last /\ requests[i + 1].attempt = 0
       /\ \A j \in 1..i : requests[j].domain # requests[i + 1].domain

\* but for the domain remembered, the requests follow the order of the configured domains
ConfiguredOrder(requests, domains, remembered) ==
  \A i, j \in 1..Len(requests) :
    (i < j /\ requests[i].domain # remembered /\ requests[j].domain # remembered) =>
      \E m, n \in 1..Len(domains) :
        m <= n /\ domains[m] = requests[i].domain /\ domains[n] = requests[j].domain

\* a call on the TPBClient: its first request goes to the working domain the client had
\* before the call, the others follow in one round in the configured order
TpbMirrorOrder ==
  (prog = "tpb_client" /\ n_calls' = n_calls + 1 /\ tpb_requests' # <<>>) =>
    /\ tpb_working_domain # None => tpb_requests'[1].domain = tpb_working_domain
    /\ OneRound(tpb_requests', TPB_MAX_RETRIES - 1)
    /\ ConfiguredOrder(tpb_requests', TPB_DOMAINS, tpb_working_domain)

\* find_working_domain: with a configured domain in the cache the first test is its health
\* check; the tests after it take the configured domains from the first on, each after the
\* one before it has failed
DomainManagerOrder ==
  fn_call.fn = "find_working_domain" =>
    LET remembered == fn_call.args.cached_domain \in Range(DEFAULT_YTS_DOMAINS)
        requests == fn_call.ret.requests
        scan == IF remembered THEN Tail(requests) ELSE requests
    IN /\ remembered =>
            /\ requests # <<>> /\ requests[1].domain = fn_call.args.cached_domain
            /\ requests[1].met = "failed" \/ Len(requests) = 1
       /\ \A i \in 1..Len(scan) :
            /\ scan[i].domain = DEFAULT_YTS_DOMAINS[i]
            /\ i < Len(scan) => scan[i].met = "failed"

\* C21: on every call the first request goes to the domain remembered as working, when
\* there is one, and the other configured domains follow in the configured order, each
\* only after the attempts on the domain before it are used up; a call on the TPBClient
\* comes to each domain in one round only
C21_MirrorOrder == [][TpbMirrorOrder /\ DomainManagerOrder']_vars

\* a call on the TPBClient that began with the last configured domain, remembered from the
\* call before, and went on to the first; and a find_working_domain that tested the cached
\* third domain, then the list up to a later domain
C21_Witness ==
  \/ /\ prog = "tpb_client" /\ n_calls >= 2 /\ Len(tpb_requests) > TPB_MAX_RETRIES
     /\ tpb_requests[1].domain = TPB_DOMAINS[3]
     /\ tpb_requests[TPB_MAX_RETRIES + 1].domain = TPB_DOMAINS[1]
  \/ /\ fn_call.fn = "find_working_domain"
     /\ fn_call.args.cached_domain = DEFAULT_YTS_DOMAINS[3]
     /\ Len(fn_call.ret.requests) > 4

\* ------------------------------------------------------------------------
\* Properties: the working domain remembered (C22)
\* ------------------------------------------------------------------------
\* the request met a body json.loads takes
MetJson(request) == request.met \in {"tpb", "object"}

\* a call on the TPBClient that went to the network: when a request was answered with
\* JSON, the domain of that request is the working domain after the call; when none was,
\* the working domain is the one of before the call
TpbMemo ==
  (prog = "tpb_client" /\ n_calls' = n_calls + 1 /\ tpb_requests' # <<>>) =>
    /\ \A i \in 1..Len(tpb_requests') :
         MetJson(tpb_requests'[i]) => tpb_working_domain' = tpb_requests'[i].domain
    /\ (\A i \in 1..Len(tpb_requests') : ~MetJson(tpb_requests'[i])) =>
         tpb_working_domain' = tpb_working_domain

\* the working domain is unset or one of TPB_DOMAINS
WorkingDomainConfigured == tpb_working_domain \in {None} \cup Range(TPB_DOMAINS)

\* find_working_domain gives cache.set('working_domain', .) only a configured domain whose
\* test in this call, the last of the call, met a page of a YTS mirror
DomainManagerStores ==
  (fn_call.fn = "find_working_domain" /\ fn_call.ret.stored # None) =>
    LET last == fn_call.ret.requests[Len(fn_call.ret.requests)]
    IN /\ last.domain = fn_call.ret.stored
       /\ \E n \in 1..Len(DEFAULT_YTS_DOMAINS) :
            /\ DEFAULT_YTS_DOMAINS[n] = fn_call.ret.stored
            /\ fn_call.args.net[n][last.attempt + 1] = YtsPage

\* C22: after a call on the TPBClient that succeeds on a domain, working_domain is that
\* domain; a call whose attempts all fail leaves working_domain as it was; working_domain
\* is always unset or a configured domain; and find_working_domain stores as
\* 'working_domain' only a domain that passed its health check in that call
C22_WorkingDomainMemo ==
  [][TpbMemo /\ WorkingDomainConfigured' /\ DomainManagerStores']_vars

\* a call that failed on every domain after an earlier call had succeeded on the last
\* configured domain, which is still remembered
C22_Witness ==
  /\ prog = "tpb_client" /\ n_calls >= 2
  /\ tpb_call.ret.kind = "exception" /\ Len(tpb_requests) = Len(TPB_DOMAINS) * TPB_MAX_RETRIES
  /\ tpb_working_domain = TPB_DOMAINS[3]

\* ------------------------------------------------------------------------
\* Properties: bounded retry (C23)
\* ------------------------------------------------------------------------
\* the requests of one fetch over ndomains domains: no more than max attempts go to one
\* domain; a sleep after attempt k lasts base * 2^k, and one is made before each further
\* attempt on the same domain; no request follows one that succeeded (the indices in
\* succeeded); there are no more than ndomains * max requests
BoundedRetry(requests, max, base, ndomains, succeeded) ==
  /\ \A i \in 1..Len(requests) :
       /\ requests[i].attempt < max
       /\ Cardinality({j \in 1..Len(requests) : requests[j].domain = requests[i].domain})
            <= max
       /\ requests[i].slept # 0 => requests[i].slept = base * Pow2(requests[i].attempt)
       /\ (i < Len(requests) /\ requests[i + 1].domain = requests[i].domain) =>
            requests[i].slept = base * Pow2(requests[i].attempt)
       /\ i \in succeeded => i = Len(requests)
  /\ Len(requests) <= ndomains * max

\* C23: a fetch makes at most MAX_RETRIES attempts on one domain before it goes to the
\* next, the wait after failed attempt k on a domain is base * 2^k, no request follows the
\* first one that was answered with a response the program can parse, and the call makes
\* at most (number of domains) x MAX_RETRIES attempts: for _fetch_with_fallback of the
\* TPBClient, for fetch_with_retry and for search_eztv
C23_BoundedRetry ==
  /\ prog = "tpb_client" =>
       BoundedRetry(tpb_requests, TPB_MAX_RETRIES, TPB_RETRY_DELAY_BASE, Len(TPB_DOMAINS),
                    {i \in 1..Len(tpb_requests) : tpb_requests[i].met \in {"tpb", "object"}})
  /\ fn_call.fn = "fetch_with_retry" =>
       BoundedRetry(fn_call.ret.requests, fn_call.args.max_retries, SY_base_delay, 1,
                    {i \in 1..Len(fn_call.ret.requests) : fn_call.ret.requests[i].met = "200"})
  /\ fn_call.fn = "search_eztv" =>
       BoundedRetry(fn_call.ret.requests, SE_MAX_RETRIES, SE_RETRY_DELAY,
                    Len(SE_EZTV_DOMAINS),
                    {i \in 1..Len(fn_call.ret.requests) :
                       fn_call.ret.requests[i].met \in {"torrents", "no torrents"}})

\* ------------------------------------------------------------------------
\* Properties: the TPB fallback of the catalog (C24)
\* ------------------------------------------------------------------------
\* limit of fetch_multi_source_catalog, handed on to fetch_tpb_fallback_catalog
FallbackLimit == 50

\* the name looks like an episode or a series to tv_pattern of fetch_tpb_fallback_catalog
EpisodeName(name) == ReSearch(name, SubSeq(FE_tv_patterns, 1, 3)) # <<>>

\* the records of the top 100 the fallback is to list for the movie category: those of
\* the first limit that carry a hash other than the all-zero one and no episode name
FallbackRecords(body, limit) ==
  SelectSeq(SubSeq(body.data, 1, Min({Len(body.data), limit})),
            LAMBDA item : /\ item.info_hash # <<>> /\ item.info_hash # ZeroHash
                          /\ ~EpisodeName(item.name))

\* the line is a COMBINED line of the record: its name, TPB as the only source, its
\* magnet, and 1 as the count of torrents
FallbackLineOf(line, item) ==
  LET parts == Split(line, "|")
  IN /\ Len(parts) = 11
     /\ parts[1] = <<"C","O","M","B","I","N","E","D">> /\ parts[2] = item.name
     /\ parts[3] = <<"T","P","B">> /\ parts[7] = Magnet(item.info_hash)
     /\ parts[11] = <<"1">>

\* the fallback step that met the top 100 given returns one line for each of its records
\* to list
FallbackLists(attempts) ==
  (cat_fallback(attempts) /\ FM_fetch_url(attempts).kind = "tpb") =>
    LET records == FallbackRecords(FM_fetch_url(attempts), FallbackLimit)
    IN /\ cat_ret'.kind = "list" /\ Len(cat_ret'.value) = Len(records)
       /\ \A i \in 1..Len(records) : FallbackLineOf(cat_ret'.value[i], records[i])

\* C24: when the YTS listing gives no movies and the top 100 of TPB answers with records,
\* fetch_multi_source_catalog returns one COMBINED line, with TPB as its only source and a
\* torrent count of 1, for each record among the first limit that is neither the all-zero
\* hash nor, for the movie category, an episode; the result is not empty when there is
\* such a record
C24_TpbFallback == [][\A attempts \in Top100Attempts : FallbackLists(attempts)]_vars

\* ------------------------------------------------------------------------
\* Properties: the hashes seen and the torrents stored (C25)
\* ------------------------------------------------------------------------
\* the places a hash is stored at, in whatever letter case: movie n, torrent k
StoredAt(h) ==
  {p \in UNION {{<<n, k>> : k \in 1..Len(movies[n].torrents)} : n \in 1..Len(movies)} :
     StrLower(movies[p[1]].torrents[p[2]].hash) = h}

\* C25: after any sequence of add_torrent, finalize, stats and to_json on one
\* UnifiedAggregator, add_torrent after finalize or stats included, every add_torrent has
\* completed, seen_hashes has as many hashes as there are torrents stored in all the
\* movies, and each hash seen is stored once, in one movie
C25_SeenMatchesStored ==
  prog = "unified_aggregator" =>
    /\ ~agg_call.raised
    /\ Cardinality(seen_hashes) = SumLen(movies)
    /\ \A h \in seen_hashes : Cardinality(StoredAt(h)) = 1

\* ------------------------------------------------------------------------
\* Properties: records without a title (C26)
\* ------------------------------------------------------------------------
\* the normalized title lib main gives an input line that has its six fields
LineTitle(l) ==
  GR_normalize_title(Split(Strip(l), "|")[2], GR_extract_year(Split(Strip(l), "|")[2]))

\* C26: a record lib group_results.py leaves out for its empty normalized title has no
\* effect on the rest of the run: every canonical hash that some input record with a
\* title carries is in the output, whatever the order of the input lines
C26_EmptyTitleHarmless ==
  (prog = "group_results" /\ gr_variant = "lib" /\ gr_pc = "done") =>
    \A k \in 1..Len(gr_results) :
      (/\ Len(Split(Strip(gr_results[k]), "|")) >= 6
       /\ GR_extract_info_hash(Split(Strip(gr_results[k]), "|")[3]) # <<>>
       /\ LineTitle(gr_results[k]) # <<>>) =>
        LineIdentity(gr_results[k]) \in OutHashes

\* ------------------------------------------------------------------------
\* Properties: grouping conserves the records (C27)
\* ------------------------------------------------------------------------
RECURSIVE AcceptedItems(_)
\* the records the first pass kept, over all the title groups
AcceptedItems(groups) ==
  IF groups = <<>> THEN <<>> ELSE Head(groups).items \o AcceptedItems(Tail(groups))

\* how often x occurs in the sequence
Occurrences(seq, x) == Cardinality({i \in 1..Len(seq) : seq[i] = x})

\* the output line carries the record: it is the line of the record, or a COMBINED line of
\* several magnets with the magnet of the record among them
CarriesItem(line, item) ==
  IF Split(line, "|")[1] = CombinedTag
  THEN Len(LineMagnets(line)) > 1 /\ item.magnet \in Range(LineMagnets(line))
  ELSE line = item.original

\* C27: every input record group_results.py (lib and bin) kept in its first pass is in one
\* output line, as its own line or as one magnet of a COMBINED line, and in that one only:
\* the magnets written are the magnets of the records kept, each as often as it was kept,
\* also when a title bucket is split by year
C27_GroupingConserves ==
  (prog = "group_results" /\ gr_pc = "done") =>
    LET items == AcceptedItems(gr_groups)
        magnets == [i \in 1..Len(items) |-> items[i].magnet]
    IN /\ Len(OutMagnets(gr_out)) = Len(items)
       /\ \A i \in 1..Len(items) :
            /\ \E k \in 1..Len(gr_out) : CarriesItem(gr_out[k], items[i])
            /\ Occurrences(OutMagnets(gr_out), items[i].magnet)
                 = Occurrences(magnets, items[i].magnet)

\* bin group_results.py has split one title bucket of three records by year and written a
\* COMBINED line for the two records of one year
C27_Witness ==
  /\ prog = "group_results" /\ gr_variant = "bin" /\ gr_pc = "done"
  /\ Len(gr_groups) = 1 /\ Len(gr_groups[1].items) = 3
  /\ Cardinality(KnownYears(gr_groups[1].items)) = 2
  /\ Len(gr_out) = 2 /\ Len(OutMagnets(gr_out)) = 3

\* ------------------------------------------------------------------------
\* Properties: a failed fetch writes no cache entry (C28)
\* ------------------------------------------------------------------------
\* a call on the TPBClient: one that ends in RuntimeError, no attempt having given JSON,
\* leaves the cache as it was, and the cache changes only in a call whose last request was
\* answered with JSON
TpbFailureNotCached ==
  (prog = "tpb_client" /\ n_calls' = n_calls + 1) =>
    /\ tpb_call'.ret.kind = "exception" => tpb_cache' = tpb_cache
    /\ tpb_cache' # tpb_cache =>
         /\ tpb_requests' # <<>>
         /\ MetJson(tpb_requests'[Len(tpb_requests')])

\* no attempt on any domain was answered with a YTS answer of status ok
NoYtsOk(answers) == \A d \in 1..Len(answers) : FM_fetch_url(answers[d]).kind # "yts_ok"

\* fetch_yts_movies and the search_tpb of an aggregate_movie task: without an answer that
\* parses, the entries of the cache stay as they were
CatalogFailureNotCached ==
  /\ \A answers \in YtsListAnswers :
       (cat_fetch_list(answers) /\ NoYtsOk(answers)) => cat_cache' = cat_cache
  /\ \A i \in cat_pending, tpb_attempts \in TpbSearchAttempts, yts_answers \in YtsSearchAnswers :
       cat_aggregate(i, tpb_attempts, yts_answers) =>
         /\ FM_fetch_url(tpb_attempts).kind # "tpb" => cat_cache'.tpb = cat_cache.tpb
         /\ NoYtsOk(yts_answers) => cat_cache'.yts_search = cat_cache.yts_search

\* search_eztv: a call in which no request gave torrents returns with the cache as it was
EztvFailureNotCached ==
  (/\ fn_call.fn = "search_eztv"
   /\ \A i \in 1..Len(fn_call.ret.requests) : fn_call.ret.requests[i].met # "torrents") =>
    fn_call.ret.cache = fn_call.args.cache

\* C28: a fetch whose attempts all fail, or whose payload does not parse, creates and
\* changes no cache entry, so that the next call with the key goes to the network again;
\* only a response that parsed is written to the cache: for _fetch_with_fallback of the
\* TPBClient, for search_tpb and fetch_yts_movies of the catalog and for search_eztv
C28_FailureNotCached ==
  [][TpbFailureNotCached /\ CatalogFailureNotCached /\ EztvFailureNotCached']_vars

\* a get_top100 that failed on every domain while the cache held the top 100 of another
\* category, which it still holds
C28_Witness ==
  /\ prog = "tpb_client" /\ n_calls >= 2
  /\ tpb_call.op = "get_top100" /\ tpb_call.ret.kind = "exception"
  /\ Len(tpb_requests) = Len(TPB_DOMAINS) * TPB_MAX_RETRIES
  /\ Cardinality(tpb_cache) = 1

\* ------------------------------------------------------------------------
\* Properties: the two kinds of identity (C29)
\* ------------------------------------------------------------------------
\* 40 characters, each a digit or a letter from a to f
IsInfoHash(h) ==
  Len(h) = 40 /\ \A k \in 1..40 : IsDigit(h[k]) \/ h[k] \in {"a","b","c","d","e","f"}

\* "data_" and a hash after it
IsDataIdentity(h) == Len(h) > 5 /\ SubSeq(h, 1, 5) = <<"d","a","t","a","_">>

\* the text after "btih:" in the magnet, <<>> without a "btih:"
AfterBtih(magnet) ==
  LET at == {i \in 1..(Len(magnet) - 4) : SubSeq(magnet, i, i + 4) = <<"b","t","i","h",":">>}
  IN IF at = {} THEN <<>> ELSE SubSeq(magnet, Min(at) + 5, Len(magnet))

\* the records read so far whose link carries no info hash and that have a title
Hashless ==
  {k \in 1..Len(gr_results) :
     /\ Len(Split(Strip(gr_results[k]), "|")) >= 6
     /\ AfterBtih(Split(Strip(gr_results[k]), "|")[3]) = <<>>
     /\ LineTitle(gr_results[k]) # <<>>}

\* C29: the identity lib group_results.py dedups by is a 40-character lower-case hex info
\* hash from the btih of the magnet, or, for a link without one, "data_" and a hash of
\* name, size and source; no identity is of both kinds, and a record without an info hash
\* is not dropped as the duplicate of a record that has one: it is kept unless the same
\* line was read before
C29_IdentityNamespaces ==
  (prog = "group_results" /\ gr_variant = "lib" /\ gr_pc # "crashed") =>
    /\ \A h \in gr_seen : IsInfoHash(h) # IsDataIdentity(h)
    /\ \A k \in 1..Len(gr_results) :
         LET magnet == Split(Strip(gr_results[k]), "|")[3]
         IN (Len(Split(Strip(gr_results[k]), "|")) >= 6 /\ Len(AfterBtih(magnet)) = 40
               /\ IsInfoHash(StrLower(AfterBtih(magnet)))) =>
              StrLower(AfterBtih(magnet)) \in gr_seen
    /\ \A k \in Hashless :
         \E i \in 1..Len(AcceptedItems(gr_groups)) :
           AcceptedItems(gr_groups)[i].original = Strip(gr_results[k])

\* a record without an info hash was read after the record of the same name, size and
\* source that has one, and both are kept
C29_Witness ==
  /\ prog = "group_results" /\ gr_variant = "lib" /\ gr_pc = "first_pass"
  /\ Len(gr_results) = 2 /\ Hashless = {2}
  /\ Split(gr_results[1], "|")[2] = Split(gr_results[2], "|")[2]
  /\ Cardinality(gr_seen) = 2 /\ Len(AcceptedItems(gr_groups)) = 2
  /\ \E h \in gr_seen : IsDataIdentity(h)

\* ------------------------------------------------------------------------
\* Properties: the lifetime of a search and of a listing in the cache (C30)
\* ------------------------------------------------------------------------
\* C30: the cache keeps the result of a search for the short TTL and the result of a
\* listing for the long one: for one client, a search entry is never served when the
\* listing entry stored at the same time is not, and there is an age at which the listing
\* entry is still served and the search entry is not
C30_TtlByOperationKind ==
  fn_call.fn = "run_twice" =>
    /\ fn_call.ret.search = "hit" => fn_call.ret.listing = "hit"
    /\ \E age \in ProbeAges :
         /\ CL_second_run(fn_call.args.client, "listing", fn_call.args.stored,
                          fn_call.args.stored + age) = "hit"
         /\ CL_second_run(fn_call.args.client, "search", fn_call.args.stored,
                          fn_call.args.stored + age) = "miss"

====
